---- MODULE Spec2Model ----
(***************************************************************************)
(* A model of the `serious` object mapper: the type descriptor builder,    *)
(* the type scanner, the construction of a SeriousModel (serializer        *)
(* dispatch, child models, registry) and load / dump of records.           *)
(*                                                                         *)
(* Python values are records of one shape, so that any two of them can be  *)
(* compared: k is the Python type of the value, s its text payload, n its  *)
(* numeric payload (floats and timestamps in tenths), items the items of a *)
(* list or tuple, m the entries of a dict or the fields of a dataclass     *)
(* instance, elems the elements of a set or frozenset.                     *)
(***************************************************************************)
EXTENDS Integers, Sequences, FiniteSets, TLC

VARIABLES model, call

vars == <<model, call>>

(***************************************************************************)
(* Bounds.                                                                 *)
(***************************************************************************)
\* Number of nested SeriousModel constructions after which the interpreter
\* gives up with RecursionError.
MaxBuildDepth == 3

\* The number of nested calls of scan the interpreter allows.
MaxScanDepth == 8

(***************************************************************************)
(* Helpers on sequences and functions.                                     *)
(***************************************************************************)
Range(f) == {f[x] : x \in DOMAIN f}

\* name = value, then the statements after it: value is computed once.
Bind(value, Then(_)) == Then(value)

EmptyMap == <<>>

\* dict(m, key=value)
Put(mp, key, value) == [x \in (DOMAIN mp) \cup {key} |-> IF x = key THEN value ELSE mp[x]]

\* The keys of a str-keyed dict in one fixed iteration order.
RECURSIVE KeySeq(_)
KeySeq(S) == IF S = {} THEN <<>>
             ELSE LET x == CHOOSE y \in S : TRUE IN <<x>> \o KeySeq(S \ {x})

(***************************************************************************)
(* Python values.                                                          *)
(***************************************************************************)
Val(k, s, n) == [k |-> k, s |-> s, n |-> n, items |-> <<>>, m |-> EmptyMap, elems |-> {}]

NoneV == Val("NoneType", "", 0)

IntV(n) == Val("int", "", n)

StrV(s) == Val("str", s, 0)

BoolV(b) == Val("bool", "", IF b THEN 1 ELSE 0)

\* A float, in tenths: FloatV(15) is 1.5.
FloatV(n) == Val("float", "", n)

ListV(items) == [Val("list", "", 0) EXCEPT !.items = items]

TupleV(items) == [Val("tuple", "", 0) EXCEPT !.items = items]

SetV(elems) == [Val("set", "", 0) EXCEPT !.elems = elems]

FrozenSetV(elems) == [Val("frozenset", "", 0) EXCEPT !.elems = elems]

DictV(mp) == [Val("dict", "", 0) EXCEPT !.m = mp]

\* An instance of the dataclass cls with the attribute values mp.
ObjV(cls, mp) == [Val("obj", cls, 0) EXCEPT !.m = mp]

\* The member of an enum, named "Class.MEMBER".
EnumV(member) == Val("enum", member, 0)

\* A datetime: tz is "naive" or "utc", ts the POSIX timestamp in tenths.
DatetimeV(tz, ts) == Val("datetime", tz, ts)

UuidV(s) == Val("UUID", s, 0)

DecimalV(s) == Val("Decimal", s, 0)

\* Stands for an instance of a class the library has no serializer for.
BytesV(s) == Val("bytes", s, 0)

(***************************************************************************)
(* Python types as written in annotations: a bare class or special form    *)
(* (alias = FALSE), or a generic alias with __origin__ and __args__.       *)
(***************************************************************************)
Cls(name) == [origin |-> name, args |-> <<>>, alias |-> FALSE]

Alias(origin, args) == [origin |-> origin, args |-> args, alias |-> TRUE]

NoneT == Cls("NoneType")

AnyT == Cls("Any")

\* typing.Optional[X] is typing.Union[X, None].
OptionalT(x) == Alias("Union", <<x, NoneT>>)

ListT(x) == Alias("list", <<x>>)

SetT(x) == Alias("set", <<x>>)

DictT(key, value) == Alias("dict", <<key, value>>)

\* Tuple[X, ...]
VarTupleT(x) == Alias("tuple", <<x, Cls("Ellipsis")>>)

(***************************************************************************)
(* The classes of the program under analysis.                              *)
(***************************************************************************)
\* dataclasses.MISSING, a default and a default_factory of a field.
NoDefault == [kind |-> "MISSING", value |-> NoneV]

Default(v) == [kind |-> "default", value |-> v]

Factory(v) == [kind |-> "default_factory", value |-> v]

Fld(name, type, default) == [name |-> name, type |-> type, default |-> default, metadata |-> FALSE]

\* A field declared with metadata={'serious': {'load': ..., 'dump': ...}}.
MetaFld(name, type, default) == [name |-> name, type |-> type, default |-> default, metadata |-> TRUE]

\* dataclasses.fields(cls), in declaration order, for every dataclass.
DataclassFields ==
    [ Student |-> <<Fld("id", Cls("int"), Default(IntV(0))),
                    Fld("name", Cls("str"), Default(StrV("student")))>>,
      Professor |-> <<Fld("id", Cls("int"), NoDefault),
                      Fld("name", Cls("str"), NoDefault)>>,
      Course |-> <<Fld("id", Cls("int"), NoDefault),
                   Fld("name", Cls("str"), NoDefault),
                   Fld("professor", Cls("Professor"), NoDefault),
                   Fld("students", SetT(Cls("Student")), NoDefault)>>,
      DataClassWithOptional |-> <<Fld("x", OptionalT(Cls("int")), NoDefault)>>,
      DataClassWithOptionalNested |->
                  <<Fld("x", OptionalT(Cls("DataClassWithOptional")), NoDefault)>>,
      DataClassWithList |-> <<Fld("xs", ListT(Cls("int")), NoDefault)>>,
      DataClassWithDataClass |-> <<Fld("dc_with_list", Cls("DataClassWithList"), NoDefault)>>,
      Bag |-> <<Fld("items", ListT(Cls("int")), Factory(ListV(<<>>))),
                Fld("flag", Cls("bool"), NoDefault)>>,
      Pair |-> <<Fld("t", Alias("tuple", <<Cls("int"), Cls("str")>>), NoDefault)>>,
      IntTuple |-> <<Fld("t", VarTupleT(Cls("int")), NoDefault)>>,
      Tags |-> <<Fld("tags", DictT(Cls("str"), Cls("float")), NoDefault)>>,
      Profile |-> <<Fld("gender", Cls("Gender"), Default(EnumV("Gender.NA")))>>,
      DataWithEnum |-> <<Fld("name", Cls("str"), NoDefault),
                         Fld("enum", Cls("Symbol"), Default(EnumV("Symbol.GAMMA")))>>,
      EnumContainer |-> <<Fld("enum_list", ListT(Cls("Symbol")), NoDefault),
                          Fld("enum_mapping", DictT(Cls("str"), Cls("Symbol")), NoDefault)>>,
      File |-> <<Fld("name", Cls("str"), NoDefault),
                 Fld("permission", Cls("Permission"), NoDefault)>>,
      Post |-> <<Fld("created_at", Cls("datetime"), NoDefault)>>,
      DataClassWithUuid |-> <<Fld("id", Cls("UUID"), NoDefault)>>,
      Price |-> <<Fld("amount", OptionalT(Cls("Decimal")), NoDefault)>>,
      PersonalContact |-> <<MetaFld("email", Cls("str"), NoDefault)>>,
      Node |-> <<Fld("next", OptionalT(Cls("Node")), NoDefault)>>,
      Chain |-> <<Fld("id", Cls("int"), NoDefault),
                  Fld("next", OptionalT(Cls("Chain")), NoDefault)>>,
      Checked |-> <<Fld("x", OptionalT(Cls("int")), NoDefault)>>,
      CheckedHolder |-> <<Fld("id", Cls("int"), NoDefault),
                          Fld("inner", Cls("Checked"), NoDefault)>>,
      CheckedDeep |-> <<Fld("holder", Cls("CheckedHolder"), NoDefault)>>,
      CheckedList |-> <<Fld("xs", ListT(Cls("Checked")), NoDefault)>>,
      Grow |-> <<Fld("next", OptionalT(Alias("Grow", <<Alias("Envelope", <<Cls("T")>>)>>)), NoDefault)>>,
      Ping |-> <<Fld("pong", OptionalT(Cls("Pong")), NoDefault)>>,
      Pong |-> <<Fld("ping", OptionalT(Cls("Ping")), NoDefault)>>,
      Envelope |-> <<Fld("payload", Cls("T"), NoDefault)>>,
      Tagged |-> <<Fld("tag", Cls("U"), NoDefault)>>,
      Labelled |-> <<Fld("label", Cls("T"), NoDefault)>>,
      Both |-> <<Fld("tag", Cls("U"), NoDefault), Fld("payload", Cls("T"), NoDefault)>>,
      Clash |-> <<Fld("label", Cls("T"), NoDefault), Fld("payload", Cls("T"), NoDefault)>>,
      Tree |-> <<Fld("root", Cls("Branch"), NoDefault)>>,
      Branch |-> <<Fld("sub", OptionalT(Cls("Branch")), NoDefault)>>,
      AnyField |-> <<Fld("a", AnyT, NoDefault)>>,
      BareList |-> <<Fld("xs", Cls("list"), NoDefault)>>,
      BareTuple |-> <<Fld("t", Cls("tuple"), NoDefault)>>,
      BareDict |-> <<Fld("d", Cls("dict"), NoDefault)>>,
      ListOfAny |-> <<Fld("xs", ListT(AnyT), NoDefault)>>,
      NestedAny |-> <<Fld("id", Cls("int"), NoDefault),
                      Fld("inner", OptionalT(Cls("BareList")), NoDefault)>>,
      DeepAny |-> <<Fld("m", DictT(Cls("str"), ListT(Cls("NestedAny"))), NoDefault)>>,
      UnionField |-> <<Fld("u", Alias("Union", <<Cls("int"), Cls("str")>>), NoDefault)>>,
      NoneFirst |-> <<Fld("u", Alias("Union", <<NoneT, Cls("int")>>), NoDefault)>>,
      Union3 |-> <<Fld("u", Alias("Union", <<Cls("int"), Cls("str"), NoneT>>), NoDefault)>>,
      NestedUnion |-> <<Fld("xs", ListT(Alias("Union", <<Cls("int"), Cls("str")>>)), NoDefault)>>,
      AnyAndUnion |-> <<Fld("a", AnyT, NoDefault),
                        Fld("u", Alias("Union", <<Cls("int"), Cls("str")>>), NoDefault)>>,
      Blob |-> <<Fld("b", Cls("bytes"), NoDefault)>>,
      BlobList |-> <<Fld("id", Cls("int"), NoDefault),
                     Fld("xs", ListT(Cls("bytes")), NoDefault)>>,
      BlobOpt |-> <<Fld("b", OptionalT(Cls("bytes")), NoDefault)>>,
      BlobDict |-> <<Fld("d", DictT(Cls("str"), Cls("bytes")), NoDefault)>>,
      NestedBlob |-> <<Fld("inner", Cls("Blob"), NoDefault)>>,
      IntKeys |-> <<Fld("d", DictT(Cls("int"), Cls("bytes")), NoDefault)>>,
      TupleBlob |-> <<Fld("t", Alias("tuple", <<Cls("int"), Cls("bytes")>>), NoDefault)>>,
      AnyAndBlob |-> <<Fld("a", AnyT, NoDefault),
                       Fld("b", Cls("bytes"), NoDefault)>> ]

Dataclasses == DOMAIN DataclassFields

\* The members of every enum class: the member and its value.
EnumMembers ==
    [ Symbol |-> {[member |-> "Symbol.ALPHA", value |-> StrV("alpha")],
                  [member |-> "Symbol.GAMMA", value |-> StrV("gamma")],
                  [member |-> "Symbol.ONE", value |-> IntV(1)]},
      Gender |-> {[member |-> "Gender.MALE", value |-> StrV("male")],
                  [member |-> "Gender.NA", value |-> StrV("not specified")]},
      Permission |-> {[member |-> "Permission.READ", value |-> IntV(4)],
                      [member |-> "Permission.WRITE", value |-> IntV(2)],
                      [member |-> "Permission.EXECUTE", value |-> IntV(1)]} ]

EnumClasses == DOMAIN EnumMembers

\* The enum classes that are flags (class Permission(IntFlag)).
FlagClasses == {"Permission"}

\* The largest int a flag is made of.
MaxFlag == 8

\* READ | WRITE | EXECUTE
AllPermissions == 7

\* The members of cls: the declared ones, and for a flag the members Python
\* creates when the class is called with an int that is no declared value.
Members(cls) ==
    EnumMembers[cls] \cup
    IF cls \in FlagClasses
    THEN {[member |-> cls \o "." \o ToString(n), value |-> IntV(n)] :
            n \in (0..MaxFlag) \ {e.value.n : e \in EnumMembers[cls]}}
    ELSE {}

\* Special forms of typing and other objects that are no classes:
\* issubclass() raises TypeError for them.
NotClasses == {"Any", "Union", "Ellipsis"}

\* The classes cls is a subclass of, cls included (class Gender(str, Enum)).
Mro(cls) == CASE cls = "bool" -> {"bool", "int"}
              [] cls = "Gender" -> {"Gender", "str", "Enum"}
              [] cls = "Symbol" -> {"Symbol", "Enum"}
              [] cls = "Permission" -> {"Permission", "int", "Enum"}
              [] OTHER -> {cls}

\* issubclass(cls, one of classes)
IsSubclass(cls, classes) == Mro(cls) \cap classes # {}

\* dataclasses.is_dataclass(cls)
IsDataclassCls(cls) == cls \in Dataclasses

(***************************************************************************)
(* descriptors.py: TypeDescriptor, describe, scan_types.                   *)
(***************************************************************************)
\* The keys of TypeDescriptor.parameters: the positions 0, 1, 2 of a generic
\* alias, and the type variables of generic dataclasses.
IndexKeys == <<"0", "1", "2">>

TypeVars == {"T", "U"}

\* cls.__orig_bases__ of the classes declared with generic bases:
\* class Envelope(Generic[T]), class Tagged(Generic[U]),
\* class Labelled(Generic[T]), class Grow(Generic[T]) with
\* next: Optional[Grow[Envelope[T]]], class Both(Envelope[int], Tagged[str]),
\* class Clash(Envelope[int], Labelled[str]).
OrigBases(cls) ==
    CASE cls \in {"Envelope", "Labelled", "Grow"} -> <<Alias("Generic", <<Cls("T")>>)>>
      [] cls = "Tagged" -> <<Alias("Generic", <<Cls("U")>>)>>
      [] cls = "Both" -> <<Alias("Envelope", <<Cls("int")>>), Alias("Tagged", <<Cls("str")>>)>>
      [] cls = "Clash" -> <<Alias("Envelope", <<Cls("int")>>), Alias("Labelled", <<Cls("str")>>)>>
      [] OTHER -> <<>>

\* cls.__parameters__ of generic dataclasses.
TypeParameters(cls) ==
    CASE cls \in {"Envelope", "Labelled", "Grow"} -> <<"T">>
      [] cls = "Tagged" -> <<"U">>
      [] OTHER -> <<>>

TypeDescriptor(cls, parameters, is_optional, is_dataclass) ==
    [cls |-> cls, parameters |-> parameters,
     is_optional |-> is_optional, is_dataclass |-> is_dataclass]

_any_type_desc == TypeDescriptor("Any", EmptyMap, FALSE, FALSE)

_ellipsis_type_desc == TypeDescriptor("Ellipsis", EmptyMap, FALSE, FALSE)

\* isinstance(cls, type)
IsType(type_) == ~type_.alias /\ type_.origin \notin NotClasses \cup TypeVars

_is_optional(type_) ==
    /\ type_.alias
    /\ type_.origin = "Union"
    /\ Len(type_.args) = 2
    /\ type_.args[2] = NoneT

_get_default_generic_params(cls, params) ==
    CASE IsSubclass(cls, {"list"}) -> [k \in {"0"} |-> _any_type_desc]
      [] IsSubclass(cls, {"set"}) -> [k \in {"0"} |-> _any_type_desc]
      [] IsSubclass(cls, {"frozenset"}) -> [k \in {"0"} |-> _any_type_desc]
      [] IsSubclass(cls, {"tuple"}) ->
            [k \in {"0", "1"} |-> IF k = "0" THEN _any_type_desc ELSE _ellipsis_type_desc]
      [] IsSubclass(cls, {"dict"}) -> [k \in {"0", "1"} |-> _any_type_desc]
      [] OTHER -> params

\* A chain in which the last map that has a key gives its value.
RECURSIVE ChainMapLastWins(_)
ChainMapLastWins(maps) ==
    IF maps = <<>> THEN EmptyMap
    ELSE LET rest == ChainMapLastWins(Tail(maps))
             first == Head(maps)
         IN [k \in (DOMAIN first) \cup (DOMAIN rest) |->
                IF k \in DOMAIN rest THEN rest[k] ELSE first[k]]

\* dict(ChainMap(*maps)): the first map that has a key gives its value.
RECURSIVE ChainMap(_)
ChainMap(maps) ==
    IF maps = <<>> THEN EmptyMap
    ELSE LET rest == ChainMap(Tail(maps))
             first == Head(maps)
         IN [k \in (DOMAIN first) \cup (DOMAIN rest) |->
                IF k \in DOMAIN first THEN first[k] ELSE rest[k]]

RECURSIVE describe(_, _), _describe_generic(_, _)
describe(type_, generic_params) ==
    IF /\ ~type_.alias
       /\ type_.origin \in TypeVars
       /\ type_.origin \in DOMAIN generic_params
    THEN generic_params[type_.origin]
    ELSE _describe_generic(type_, generic_params)

_collect_type_vars(alias, generic_params) ==
    LET tvars == TypeParameters(alias.origin)
        n == IF Len(tvars) < Len(alias.args) THEN Len(tvars) ELSE Len(alias.args)
    IN [k \in {tvars[i] : i \in 1..n} |->
            describe(alias.args[CHOOSE i \in 1..n : tvars[i] = k], generic_params)]

\* A faulty _describe_generic that takes no plain class for a dataclass.
DescribeGenericPlain(type_, generic_params) ==
    LET is_optional == _is_optional(type_)
        cls == IF is_optional THEN type_.args[1] ELSE type_
    IN  IF cls.alias
        THEN TypeDescriptor(cls.origin,
                            [k \in {IndexKeys[i] : i \in 1..Len(cls.args)} |->
                                describe(cls.args[CHOOSE i \in 1..Len(cls.args) :
                                                     IndexKeys[i] = k], generic_params)],
                            is_optional, IsDataclassCls(cls.origin))
        ELSE TypeDescriptor(cls.origin,
                            IF IsType(cls) THEN _get_default_generic_params(cls.origin, EmptyMap)
                            ELSE EmptyMap,
                            is_optional, FALSE)

_describe_generic(type_, generic_params) ==
    LET is_optional == _is_optional(type_)
        cls == IF is_optional THEN type_.args[1] ELSE type_
    IN  IF ~cls.alias /\ OrigBases(cls.origin) # <<>> /\ IsDataclassCls(cls.origin)
        THEN LET bases == OrigBases(cls.origin)
                 params == ChainMap([i \in 1..Len(bases) |->
                                _describe_generic(bases[i], generic_params).parameters])
             IN TypeDescriptor(cls.origin, params, is_optional, TRUE)
        ELSE IF cls.alias
        THEN LET origin_is_dc == IsDataclassCls(cls.origin)
                 describe_(arg) ==
                     describe(IF ~arg.alias /\ arg.origin \in TypeVars THEN AnyT ELSE arg,
                              generic_params)
                 params == IF origin_is_dc
                           THEN _collect_type_vars(cls, generic_params)
                           ELSE [k \in {IndexKeys[i] : i \in 1..Len(cls.args)} |->
                                    describe_(cls.args[CHOOSE i \in 1..Len(cls.args) :
                                                          IndexKeys[i] = k])]
             IN TypeDescriptor(cls.origin, params, is_optional, origin_is_dc)
        ELSE LET params == IF IsType(cls)
                           THEN _get_default_generic_params(cls.origin, EmptyMap)
                           ELSE EmptyMap
             IN TypeDescriptor(cls.origin, params, is_optional, IsDataclassCls(cls.origin))

\* TypeDescriptor.fields, in the order of dataclasses.fields(cls); with each
\* descriptor the metadata of the field, which the field serializers read.
fields(desc) ==
    IF ~IsDataclassCls(desc.cls) THEN <<>>
    ELSE LET fs == DataclassFields[desc.cls]
         IN [i \in 1..Len(fs) |->
                [name |-> fs[i].name,
                 type |-> describe(fs[i].type, desc.parameters),
                 metadata |-> fs[i].metadata]]

\* desc.parameters.values()
ParameterValues(desc) ==
    LET keys == KeySeq(DOMAIN desc.parameters)
    IN [i \in 1..Len(keys) |-> desc.parameters[keys[i]]]

\* DescTypes.scan: the classes found and the list `known` as the call leaves
\* it; depth counts the calls of scan in progress, and a call beyond
\* MaxScanDepth of them ends in the interpreter's RecursionError.
RECURSIVE scan(_, _, _), ScanEach(_, _, _)
\* desc.fields.values()
FieldTypes(desc) == Bind(fields(desc), LAMBDA fds : [i \in 1..Len(fds) |-> fds[i].type])

scan(desc, known, depth) ==
    IF depth > MaxScanDepth THEN [types |-> <<>>, known |-> known, err |-> "RecursionError"]
    ELSE IF desc \in Range(known) THEN [types |-> <<>>, known |-> known, err |-> ""]
    ELSE Bind(ScanEach(ParameterValues(desc) \o FieldTypes(desc), Append(known, desc), depth),
              LAMBDA dts : [types |-> IF dts.err = "" THEN Append(dts.types, desc.cls)
                                      ELSE dts.types,
                            known |-> dts.known, err |-> dts.err])

ScanEach(descs, known, depth) ==
    IF descs = <<>> THEN [types |-> <<>>, known |-> known, err |-> ""]
    ELSE Bind(scan(Head(descs), known, depth + 1), LAMBDA first :
         IF first.err # "" THEN first
         ELSE Bind(ScanEach(Tail(descs), first.known, depth), LAMBDA rest :
                   [types |-> first.types \o rest.types, known |-> rest.known,
                    err |-> rest.err]))

\* A faulty scan_types that stops at the record's own field types: it looks
\* neither into generic parameters nor into nested records.
ScanTypesShallow(desc) ==
    Bind(fields(desc), LAMBDA fds :
         [types |-> [i \in 1..Len(fds) |-> fds[i].type.cls] \o <<desc.cls>>,
          known |-> <<desc>>, err |-> ""])

scan_types(desc) == scan(desc, <<>>, 1)

(***************************************************************************)
(* field_serializers.py: the kinds of field serializers and their fits.    *)
(***************************************************************************)
\* What a field serializer is built for: the type descriptor of the field
\* (or of an item of it) and whether the field declares serious metadata.
FieldDescriptor(type, metadata) == [type |-> type, metadata |-> metadata]

\* field.type.non_optional()
non_optional(desc) == [desc EXCEPT !.is_optional = FALSE]

\* A serializer kind a caller of the library adds: ints kept as strings.
IntAsStrSerializer == "IntAsStrSerializer"

field_serializers(custom) ==
    <<"MetadataSerializer", "OptionalSerializer">> \o custom \o
    <<"AnySerializer", "DictSerializer", "CollectionSerializer", "PrimitiveSerializer",
      "DataclassSerializer", "DateTimeUtcTimestampSerializer", "UuidSerializer",
      "DecimalSerializer", "EnumSerializer">>

\* The classes the fits of a kind passes to issubclass (none: no such call).
FitsClasses(kind) ==
    CASE kind = "DictSerializer" -> {"dict"}
      [] kind = "CollectionSerializer" -> {"list", "set", "frozenset", "tuple"}
      [] kind = "PrimitiveSerializer" -> {"str", "int", "float", "bool"}
      [] kind = "DateTimeUtcTimestampSerializer" -> {"datetime"}
      [] kind = "UuidSerializer" -> {"UUID"}
      [] kind = "DecimalSerializer" -> {"Decimal"}
      [] kind = "EnumSerializer" -> {"Enum"}
      [] OTHER -> {}

\* fits raises TypeError: issubclass() of something that is no class.
FitsRaises(kind, field) ==
    /\ FitsClasses(kind) # {}
    /\ field.type.cls \in NotClasses \cup TypeVars

\* kind.fits(field)
Fits(kind, field) ==
    CASE kind = "MetadataSerializer" -> field.metadata
      [] kind = "OptionalSerializer" -> field.type.is_optional
      [] kind = "AnySerializer" -> field.type.cls = "Any"
      [] kind = "DataclassSerializer" -> field.type.is_dataclass
      [] kind = IntAsStrSerializer -> field.type.cls = "int"
      [] OTHER -> IsSubclass(field.type.cls, FitsClasses(kind))

(***************************************************************************)
(* core.py: construction of a SeriousModel.                                *)
(***************************************************************************)
\* A field serializer: its kind, what it is bound to, and the serializers it
\* holds (the inner one of an optional, the item one of a collection, the
\* value one of a dict).  A DataclassSerializer holds the child model; the
\* model records it by the descriptor that keys the registry.
Serializer(kind, field, inner) == [kind |-> kind, field |-> field, inner |-> inner]

NoSerializer == Serializer("", FieldDescriptor(_any_type_desc, FALSE), <<>>)

\* What a construction has done so far: the registry shared by the root
\* model and its child models, the descriptors SeriousModel.__init__ was
\* entered for, and the field serializers instantiated, in order.
NewBuild == [registry |-> <<>>, created |-> <<>>, instantiated |-> <<>>]

\* The outcome of a step of the construction: err is "" or the error raised,
\* at the class the error names.
Built(b, ser, fsers) == [err |-> "", at |-> "", b |-> b, ser |-> ser, fsers |-> fsers]

Raised(err, at, b) == [err |-> err, at |-> at, b |-> b, ser |-> NoSerializer, fsers |-> <<>>]

\* descriptor in self._serializer_registry
InRegistry(registry, desc) == \E i \in 1..Len(registry) : registry[i].descriptor = desc

\* self._serializer_registry[descriptor] = new_model
Register(registry, desc, fsers, cfg) ==
    IF InRegistry(registry, desc)
    THEN [i \in 1..Len(registry) |->
            IF registry[i].descriptor = desc
            THEN [descriptor |-> desc, field_serializers |-> fsers, cfg |-> cfg]
            ELSE registry[i]]
    ELSE Append(registry, [descriptor |-> desc, field_serializers |-> fsers, cfg |-> cfg])

RECURSIVE SeriousModelInit(_, _, _, _, _), ResolveFields(_, _, _, _), find_serializer(_, _, _, _)
RECURSIVE _find_serializer(_, _, _, _, _), NewSerializer(_, _, _, _, _), child_model(_, _, _, _)

\* SeriousModel.__init__; registry_given is `_registry is not None`.
SeriousModelInit(desc, cfg, b, registry_given, depth) ==
    IF depth > MaxBuildDepth THEN Raised("RecursionError", desc.cls, b)
    ELSE IF ~IsDataclassCls(desc.cls) THEN Raised("NotADataclass", desc.cls, b)
    ELSE Bind(scan_types(desc), LAMBDA found :
         IF found.err # "" THEN Raised(found.err, desc.cls, b)
         ELSE Bind(Range(found.types), LAMBDA all_types :
         IF ~cfg.allow_any /\ "Any" \in all_types
         THEN Raised("ModelContainsAny", desc.cls, b)
         ELSE IF "Union" \in all_types
         THEN Raised("ModelContainsUnion", desc.cls, b)
         ELSE Bind(ResolveFields(fields(desc), cfg,
                                 [b EXCEPT !.created = Append(@, desc),
                                           !.registry = IF registry_given THEN @
                                                        ELSE Register(<<>>, desc, <<>>, cfg)],
                                 depth),
                   LAMBDA r :
                      IF r.err # "" THEN r
                      ELSE IF registry_given THEN r
                      ELSE Built([r.b EXCEPT !.registry = Register(@, desc, r.fsers, cfg)],
                                 NoSerializer, r.fsers))))

\* {name: self.find_serializer(desc) for name, desc in descriptor.fields.items()}
ResolveFields(fds, cfg, b, depth) ==
    IF fds = <<>> THEN Built(b, NoSerializer, <<>>)
    ELSE Bind(find_serializer(FieldDescriptor(Head(fds).type, Head(fds).metadata), cfg, b, depth),
              LAMBDA first :
                 IF first.err # "" THEN first
                 ELSE Bind(ResolveFields(Tail(fds), cfg, first.b, depth), LAMBDA rest :
                      IF rest.err # "" THEN rest
                      ELSE Built(rest.b, NoSerializer,
                                 <<[name |-> Head(fds).name, serializer |-> first.ser]>>
                                    \o rest.fsers)))

\* The kinds whose fits(desc) does not return False: it returns True or raises.
Asked(kinds, field) ==
    {i \in 1..Len(kinds) : FitsRaises(kinds[i], field) \/ Fits(kinds[i], field)}

\* A field serializer that keeps the serializer an inner find_serializer found.
Holding(kind, field, r) ==
    IF r.err # "" THEN r ELSE Built(r.b, Serializer(kind, field, <<r.ser>>), <<>>)

\* A faulty find_serializer that hands on what _find_serializer returns
\* without the check that a serializer is present.
FindSerializerUnchecked(field, cfg, b, depth) ==
    _find_serializer(cfg.serializers, field, cfg, b, depth)

find_serializer(field, cfg, b, depth) ==
    Bind(_find_serializer(cfg.serializers, field, cfg, b, depth), LAMBDA optional :
         IF optional.err = "" /\ optional.ser = NoSerializer
         THEN Raised("UnsupportedType", field.type.cls, optional.b)
         ELSE optional)

\* A faulty _find_serializer that asks every kind and keeps the last that fits.
FindLastSerializer(kinds, field, cfg, b, depth) ==
    Bind(Asked(kinds, field), LAMBDA asked :
         IF asked = {} THEN Built(b, NoSerializer, <<>>)
         ELSE Bind(CHOOSE i \in asked : \A j \in asked : j <= i, LAMBDA last :
              IF FitsRaises(kinds[last], field)
              THEN Raised("TypeError", field.type.cls, b)
              ELSE NewSerializer(kinds[last], field, cfg, b, depth)))

\* next((serializer(desc, self) for serializer in kinds if serializer.fits(desc)), None):
\* the kinds are asked in order, up to the first that fits (or whose fits raises).
_find_serializer(kinds, field, cfg, b, depth) ==
    Bind(Asked(kinds, field), LAMBDA asked :
         IF asked = {} THEN Built(b, NoSerializer, <<>>)
         ELSE Bind(CHOOSE i \in asked : \A j \in asked : i <= j, LAMBDA first :
              IF FitsRaises(kinds[first], field)
              THEN Raised("TypeError", field.type.cls, b)
              ELSE NewSerializer(kinds[first], field, cfg, b, depth)))

\* The constructor of a field serializer kind.
NewSerializer(kind, field, cfg, b, depth) ==
    Bind([b EXCEPT !.instantiated = Append(@, [kind |-> kind, field |-> field])], LAMBDA b1 :
    CASE kind = "OptionalSerializer" ->
            Bind(find_serializer(FieldDescriptor(non_optional(field.type), field.metadata),
                                 cfg, b1, depth),
                 LAMBDA r : Holding(kind, field, r))
      [] kind \in {"DictSerializer", "CollectionSerializer"} ->
            \* generic_item_serializer(field, sr, param_index=i)
            IF kind = "DictSerializer" /\ ~( /\ field.type.parameters["0"].cls = "str"
                                             /\ ~field.type.parameters["0"].is_optional )
            THEN Raised("AssertionError", field.type.parameters["0"].cls, b1)
            ELSE Bind(find_serializer(
                          FieldDescriptor(field.type.parameters[IF kind = "DictSerializer"
                                                                THEN "1" ELSE "0"],
                                          field.metadata),
                          cfg, b1, depth),
                      LAMBDA r : Holding(kind, field, r))
      [] kind = "DataclassSerializer" ->
            Bind(child_model(field.type, cfg, b1, depth), LAMBDA r :
                 IF r.err # "" THEN r
                 ELSE Built(r.b, Serializer(kind, field, <<>>), <<>>))
      [] OTHER -> Built(b1, Serializer(kind, field, <<>>), <<>>))

\* A faulty child_model that does not look into the registry: a record whose
\* model is under construction is constructed again, without end.
ChildModelUnregistered(desc, cfg, b, depth) ==
    IF desc \in Range(b.created) THEN Raised("RecursionError", desc.cls, b)
    ELSE Bind(SeriousModelInit(desc, cfg, b, TRUE, depth + 1), LAMBDA new_model :
         IF new_model.err # "" THEN new_model
         ELSE Built([new_model.b EXCEPT !.registry = Register(@, desc, new_model.fsers, cfg)],
                    NoSerializer, new_model.fsers))

\* A faulty child_model that builds the child with the flags at their
\* defaults instead of the flags of the model.
ChildModelDefaultFlags(desc, cfg, b, depth) ==
    IF InRegistry(b.registry, desc) THEN Built(b, NoSerializer, <<>>)
    ELSE Bind([cfg EXCEPT !.allow_any = FALSE, !.allow_missing = FALSE,
                          !.allow_unexpected = FALSE], LAMBDA defaults :
         Bind(SeriousModelInit(desc, defaults, b, TRUE, depth + 1), LAMBDA new_model :
         IF new_model.err # "" THEN new_model
         ELSE Built([new_model.b EXCEPT !.registry =
                        Register(@, desc, new_model.fsers, defaults)],
                    NoSerializer, new_model.fsers)))

\* SeriousModel.child_model
child_model(desc, cfg, b, depth) ==
    IF InRegistry(b.registry, desc) THEN Built(b, NoSerializer, <<>>)
    ELSE Bind(SeriousModelInit(desc, cfg, b, TRUE, depth + 1), LAMBDA new_model :
         IF new_model.err # "" THEN new_model
         ELSE Built([new_model.b EXCEPT !.registry = Register(@, desc, new_model.fsers, cfg)],
                    NoSerializer, new_model.fsers))

(***************************************************************************)
(* The Python built-ins the serializers call.                              *)
(***************************************************************************)
\* The outcome of a load or dump: err is "" or the exception raised, cause
\* the exception a LoadError / DumpError was raised from, names the field
\* names a MissingField / UnexpectedItem carries, stack the entries of the
\* context stack when the exception was raised, value the value returned.
Returned(v) == [err |-> "", cause |-> "", names |-> {}, stack |-> <<>>, value |-> v]

Failed(err) == [err |-> err, cause |-> "", names |-> {}, stack |-> <<>>, value |-> NoneV]

\* The largest integer literal the strings of the model spell.
MaxIntLiteral == 3

IsIntLiteral(s) == \E n \in 0..MaxIntLiteral : ToString(n) = s

IntLiteral(s) == CHOOSE n \in 0..MaxIntLiteral : ToString(n) = s

\* repr of a float kept in tenths.
FloatRepr(n) == ToString(n \div 10) \o "." \o ToString(n % 10)

IsFloatLiteral(s) == \E n \in 0..(10 * MaxIntLiteral + 9) : FloatRepr(n) = s

FloatLiteral(s) == CHOOSE n \in 0..(10 * MaxIntLiteral + 9) : FloatRepr(n) = s

\* The strings uuid.UUID accepts.
UuidLiterals == {"d1d61dd7-c036-47d3-a6ed-91cc2e885fc8"}

IsNumber(v) == v.k \in {"int", "bool", "float"}

\* The value of a number, in tenths.
Tenths(v) == IF v.k = "float" THEN v.n ELSE 10 * v.n

\* a == b for the values an enum is looked up by: numbers compare by value.
PyEq(a, b) == IF IsNumber(a) /\ IsNumber(b) THEN Tenths(a) = Tenths(b) ELSE a = b

\* The enum class of a member "Class.MEMBER".
MemberClass(v) == CHOOSE c \in EnumClasses : \E e \in Members(c) : e.member = v.s

\* member.value
MemberValue(v) == (CHOOSE e \in Members(MemberClass(v)) : e.member = v.s).value

\* isinstance(v, str): a str or a member of an enum that mixes in str.
IsStr(v) == \/ v.k = "str"
            \/ v.k = "enum" /\ "str" \in Mro(MemberClass(v))

\* The characters of a str as a plain str.
StrOf(v) == IF v.k = "enum" THEN MemberValue(v).s ELSE v.s

\* str(v)
PyStr(v) ==
    CASE v.k = "str" -> v
      [] v.k = "int" -> StrV(ToString(v.n))
      [] v.k = "bool" -> StrV(IF v.n = 1 THEN "True" ELSE "False")
      [] v.k = "float" -> StrV(FloatRepr(v.n))
      [] v.k = "NoneType" -> StrV("None")
      [] v.k \in {"enum", "UUID", "Decimal"} -> StrV(v.s)
      [] OTHER -> StrV("<" \o v.k \o ">")

\* int(v)
PyInt(v) ==
    CASE v.k = "int" -> Returned(v)
      [] v.k = "bool" -> Returned(IntV(v.n))
      [] v.k = "float" -> Returned(IntV(v.n \div 10))
      [] IsStr(v) -> IF IsIntLiteral(StrOf(v)) THEN Returned(IntV(IntLiteral(StrOf(v))))
                     ELSE Failed("ValueError")
      [] OTHER -> Failed("TypeError")

\* float(v)
PyFloat(v) ==
    CASE v.k = "float" -> Returned(v)
      [] v.k \in {"int", "bool"} -> Returned(FloatV(10 * v.n))
      [] IsStr(v) -> IF IsIntLiteral(StrOf(v)) THEN Returned(FloatV(10 * IntLiteral(StrOf(v))))
                     ELSE IF IsFloatLiteral(StrOf(v)) THEN Returned(FloatV(FloatLiteral(StrOf(v))))
                     ELSE Failed("ValueError")
      [] OTHER -> Failed("TypeError")

\* bool(v)
PyBool(v) ==
    CASE IsNumber(v) -> BoolV(v.n # 0)
      [] v.k = "NoneType" -> BoolV(FALSE)
      [] IsStr(v) -> BoolV(StrOf(v) # "")
      [] v.k \in {"list", "tuple"} -> BoolV(v.items # <<>>)
      [] v.k \in {"set", "frozenset"} -> BoolV(v.elems # {})
      [] v.k = "dict" -> BoolV(DOMAIN v.m # {})
      [] OTHER -> BoolV(TRUE)

\* cls(v) for an enum class: the member with that value.
EnumCall(cls, v) ==
    IF v.k = "enum" /\ MemberClass(v) = cls THEN Returned(v)
    ELSE Bind(IF v.k = "enum" THEN MemberValue(v) ELSE v, LAMBDA value :
         \* a flag is made of any int; other values are looked up
         Bind({e \in Members(cls) : /\ PyEq(e.value, value)
                                    /\ e \in EnumMembers[cls] \/ value.k \in {"int", "bool"}},
              LAMBDA found :
              IF found # {} THEN Returned(EnumV((CHOOSE e \in found : TRUE).member))
              ELSE Failed("ValueError")))

\* cls(v) for str, int, float, bool and their subclasses.
PrimitiveCall(cls, v) ==
    CASE cls \in EnumClasses -> EnumCall(cls, v)
      [] cls = "str" -> Returned(PyStr(v))
      [] cls = "int" -> PyInt(v)
      [] cls = "float" -> PyFloat(v)
      [] cls = "bool" -> Returned(PyBool(v))
      [] OTHER -> Failed("TypeError")

\* hash(v) does not raise: what a set may hold.
Hashable(v) == v.k \notin {"list", "dict", "set"}

\* The elements of a set in the order an iteration meets them.
RECURSIVE ElemSeq(_)
ElemSeq(S) == IF S = {} THEN <<>>
              ELSE LET x == CHOOSE y \in S : TRUE IN <<x>> \o ElemSeq(S \ {x})

\* iter(v) does not raise.
Iterable(v) == v.k \in {"list", "tuple", "set", "frozenset", "dict"}

\* list(v) for an iterable: the items of a collection, the keys of a dict.
Items(v) ==
    CASE v.k \in {"list", "tuple"} -> v.items
      [] v.k \in {"set", "frozenset"} -> ElemSeq(v.elems)
      [] OTHER -> LET keys == KeySeq(DOMAIN v.m) IN [i \in 1..Len(keys) |-> StrV(keys[i])]

\* cls(items) for list, set, frozenset and tuple.
CollectionCall(cls, items) ==
    CASE cls = "list" -> Returned(ListV(items))
      [] cls = "tuple" -> Returned(TupleV(items))
      [] \E i \in 1..Len(items) : ~Hashable(items[i]) -> Failed("TypeError")
      [] cls = "set" -> Returned(SetV(Range(items)))
      [] OTHER -> Returned(FrozenSetV(Range(items)))

\* datetime.fromtimestamp(v, tz=timezone.utc)
FromTimestamp(v) == IF IsNumber(v) THEN Returned(DatetimeV("utc", Tenths(v)))
                    ELSE Failed("TypeError")

\* UUID(v)
UuidCall(v) == IF ~IsStr(v) THEN Failed("AttributeError")
               ELSE IF StrOf(v) \in UuidLiterals THEN Returned(UuidV(StrOf(v)))
               ELSE Failed("ValueError")

\* Decimal(v)
DecimalCall(v) ==
    CASE v.k = "Decimal" -> Returned(v)
      [] v.k \in {"int", "bool"} -> Returned(DecimalV(ToString(v.n)))
      [] v.k = "float" -> Returned(DecimalV(FloatRepr(v.n)))
      [] IsStr(v) -> IF IsIntLiteral(StrOf(v)) \/ IsFloatLiteral(StrOf(v))
                     THEN Returned(DecimalV(StrOf(v)))
                     ELSE Failed("InvalidOperation")
      [] OTHER -> Failed("TypeError")

(***************************************************************************)
(* core.py: SeriousModel.load and SeriousModel.dump, and the load and dump *)
(* of the field serializers.                                               *)
(***************************************************************************)
\* The field names of a dataclass.
FieldNames(cls) == {DataclassFields[cls][i].name : i \in 1..Len(DataclassFields[cls])}

\* A faulty _fields_missing_from that yields no field at all.
FieldsMissingNothing(data, cls) == {}

\* A faulty _fields_missing_from that forgets the defaults: it yields every
\* declared field the data lacks.
FieldsMissingWithDefaults(data, cls) ==
    {f.name : f \in {g \in Range(DataclassFields[cls]) : g.name \notin DOMAIN data}}

\* The names of the fields _fields_missing_from yields.
_fields_missing_from(data, cls) ==
    {f.name : f \in {g \in Range(DataclassFields[cls]) :
                        /\ g.name \notin DOMAIN data
                        /\ g.default.kind # "default"
                        /\ g.default.kind # "default_factory"}}

\* A faulty _check_for_missing that passes over the fields with a default or
\* a default factory.
CheckForMissingWithoutDefault(cls, data) ==
    {f.name : f \in {g \in Range(DataclassFields[cls]) :
                        g.name \notin DOMAIN data /\ g.default.kind = "MISSING"}}

\* The field names of the MissingField _check_for_missing raises; {} if it returns.
_check_for_missing(cls, data) ==
    {f.name : f \in {g \in Range(DataclassFields[cls]) : g.name \notin DOMAIN data}}

\* bool(key) of a key of the data.
Truthy(key) == key # ""

\* The keys of the UnexpectedItem _check_for_unexpected raises; {} if it returns.
_check_for_unexpected(cls, data) ==
    LET unexpected_fields == (DOMAIN data) \ FieldNames(cls)
    IN  IF \E key \in unexpected_fields : Truthy(key) THEN unexpected_fields ELSE {}

\* cls(**init_kwargs): the __init__ a dataclass generates.
NewInstance(cls, init_kwargs) ==
    LET fs == DataclassFields[cls]
    IN  IF \E i \in 1..Len(fs) : fs[i].name \notin DOMAIN init_kwargs /\ fs[i].default.kind = "MISSING"
        THEN Failed("TypeError")
        ELSE Returned(ObjV(cls, [name \in FieldNames(cls) |->
                IF name \in DOMAIN init_kwargs THEN init_kwargs[name]
                ELSE (CHOOSE f \in Range(fs) : f.name = name).default.value]))

\* self._field_serializers of the model the registry holds for a descriptor.
FieldSerializers(m, desc) ==
    (CHOOSE e \in Range(m.registry) : e.descriptor = desc).field_serializers

\* self._serializers, self._allow_any, self._allow_missing and
\* self._allow_unexpected of the model the registry holds for a descriptor.
Flags(m, desc) == (CHOOSE e \in Range(m.registry) : e.descriptor = desc).cfg

\* The exception classes a class of serious.errors is a subclass of, itself
\* included: MissingField and UnexpectedItem are kinds of LoadError.
ErrorBases(err) ==
    CASE err \in {"MissingField", "UnexpectedItem"} -> {err, "LoadError"}
      [] OTHER -> {err}

\* isinstance(e, cls) for an exception e.
IsInstanceOf(e, cls) == e.err # "" /\ cls \in ErrorBases(e.err)

\* The record classes that declare the validation hook __validate__.
ValidatedClasses == {"Checked"}

\* o.__validate__() raises ValidationError: a Checked must hold an x.
HookRaises(o) == o.s = "Checked" /\ o.m["x"] = NoneV

\* serious.validation.validate: calls the validation hook of an object that
\* has one, and returns the object.
validate(result) ==
    IF result.k = "obj" /\ result.s \in ValidatedClasses /\ HookRaises(result)
    THEN Failed("ValidationError")
    ELSE Returned(result)

\* The first of the results that raised, 0 if none did.
FirstFailed(results) ==
    IF \A i \in DOMAIN results : results[i].err = "" THEN 0
    ELSE CHOOSE i \in DOMAIN results :
            /\ results[i].err # ""
            /\ \A j \in DOMAIN results : results[j].err # "" => i <= j

\* raise LoadError(...) from e, raise DumpError(...) from e
Wrapped(err, e) == [err |-> err, cause |-> e.err, names |-> e.names, stack |-> e.stack,
                    value |-> NoneV]

\* The declared load and dump functions of the metadata of PersonalContact.email:
\* load keeps the data, dump hides what precedes the "@".
MetadataLoad(v) == Returned(v)

MetadataDump(v) == IF ~IsStr(v) THEN Failed("AttributeError")
                   ELSE IF StrOf(v) = "me@host" THEN Returned(StrV("...@host"))
                   ELSE Failed("IndexError")

\* A faulty check that does not look at allow_unexpected.
UnexpectedRaisedWhateverFlag(cfg, cls, mut_data) ==
    _check_for_unexpected(cls, mut_data) # {}

\* if not self._allow_unexpected: _check_for_unexpected(self._cls, mut_data)
UnexpectedRaised(cfg, cls, mut_data) ==
    ~cfg.allow_unexpected /\ _check_for_unexpected(cls, mut_data) # {}

RECURSIVE load(_, _, _, _), SerializerLoad(_, _, _), dump(_, _, _, _), SerializerDump(_, _, _)

\* mut_data: the data, with None for every field _fields_missing_from yields
\* when allow_missing is set.
MutData(cfg, cls, data) ==
    Bind(IF cfg.allow_missing THEN _fields_missing_from(data, cls) ELSE {}, LAMBDA synthesized :
         [key \in (DOMAIN data) \cup synthesized |->
            IF key \in DOMAIN data THEN data[key] ELSE NoneV])

\* The first exception of a run of field serializers, with the entry of the
\* field it was raised at on the context stack.
RaisedAt(run, failed, fsers) ==
    [run[failed] EXCEPT !.stack = <<".[" \o fsers[failed].name \o "]">> \o @]

\* {field: result of its serializer}
ByName(run, fsers) ==
    [name \in {fsers[i].name : i \in 1..Len(fsers)} |->
        run[CHOOSE i \in 1..Len(fsers) : fsers[i].name = name].value]

\* The results of the serializer of a dict or a collection for its items:
\* the first exception, or what Done makes of the items loaded or dumped.
ItemsDone(items, Done(_)) ==
    Bind(FirstFailed(items), LAMBDA failed :
         IF failed # 0 THEN items[failed]
         ELSE Done([i \in 1..Len(items) |-> items[i].value]))

\* {key: item for key, item in ...}
DictOf(keys, values) ==
    DictV([key \in Range(keys) |-> values[CHOOSE i \in 1..Len(keys) : keys[i] = key]])

\* Loading.run without the entry of the step: the serializer loads the value
\* and the result is validated.
LoadingRun(m, serializer, value) ==
    Bind(SerializerLoad(m, serializer, value), LAMBDA result :
         IF result.err # "" THEN result ELSE validate(result.value))

\* result = self._cls(**init_kwargs); validate(result); return result
Construct(cls, init_kwargs) ==
    Bind(NewInstance(cls, init_kwargs), LAMBDA result :
         IF result.err # "" THEN result ELSE validate(result.value))

\* A faulty handler that wraps whatever the root call raised, a
\* ValidationError included.
LoadExceptWrapsAll(root, e) ==
    IF e.err # "" /\ root THEN Wrapped("LoadError", e) ELSE e

\* A faulty handler that wraps in every call, nested calls included.
LoadExceptWrapsNested(root, e) ==
    IF e.err = "" \/ e.err = "ValidationError" THEN e ELSE Wrapped("LoadError", e)

\* A faulty handler that re-raises in the root call as in the nested ones.
LoadExceptReraises(root, e) == e

\* except Exception as e: of SeriousModel.load; e is what the try block
\* returned or raised.
LoadExcept(root, e) ==
    IF e.err = "" THEN e
    ELSE IF root
    THEN IF IsInstanceOf(e, "ValidationError") THEN e ELSE Wrapped("LoadError", e)
    ELSE e

\* except Exception as e: of SeriousModel.dump
DumpExcept(root, e) ==
    IF e.err = "" THEN e
    ELSE IF root THEN Wrapped("DumpError", e)
    ELSE e

\* SeriousModel.load of the model of desc; root is `_ctx is None`.
load(m, desc, data, root) ==
    IF data.k # "dict" THEN Failed("TypeMismatch")
    ELSE
    Bind(MutData(Flags(m, desc), desc.cls, data.m), LAMBDA mut_data :
    Bind(IF Flags(m, desc).allow_missing THEN {} ELSE _check_for_missing(desc.cls, mut_data),
         LAMBDA missing :
    IF missing # {} THEN [Failed("MissingField") EXCEPT !.names = missing]
    ELSE IF UnexpectedRaised(Flags(m, desc), desc.cls, mut_data)
    THEN [Failed("UnexpectedItem") EXCEPT !.names = _check_for_unexpected(desc.cls, mut_data)]
    ELSE
    Bind(SelectSeq(FieldSerializers(m, desc), LAMBDA fs : fs.name \in DOMAIN mut_data),
         LAMBDA present :
    \* loading.run(f'.[{field}]', serializer, mut_data[field])
    Bind([i \in 1..Len(present) |->
            LoadingRun(m, present[i].serializer, mut_data[present[i].name])],
         LAMBDA run :
    Bind(FirstFailed(run), LAMBDA failed :
    LoadExcept(root, IF failed # 0 THEN RaisedAt(run, failed, present)
                     ELSE Construct(desc.cls, ByName(run, present))))))))

\* serializer.load(value, ctx)
SerializerLoad(m, serializer, value) ==
    Bind(serializer.kind, LAMBDA kind :
    Bind(serializer.field.type.cls, LAMBDA cls :
    CASE kind = "MetadataSerializer" -> MetadataLoad(value)
      [] kind = "OptionalSerializer" ->
            IF value = NoneV THEN Returned(NoneV)
            ELSE SerializerLoad(m, serializer.inner[1], value)
      [] kind = "AnySerializer" -> Returned(value)
      [] kind = "DictSerializer" ->
            IF value.k # "dict" THEN Failed("AttributeError")
            ELSE Bind(KeySeq(DOMAIN value.m), LAMBDA keys :
                 ItemsDone([i \in 1..Len(keys) |->
                                SerializerLoad(m, serializer.inner[1], value.m[keys[i]])],
                           LAMBDA items : Returned(DictOf(keys, items))))
      [] kind = "CollectionSerializer" ->
            IF ~Iterable(value) THEN Failed("TypeError")
            ELSE Bind(Items(value), LAMBDA data :
                 ItemsDone([i \in 1..Len(data) |->
                                SerializerLoad(m, serializer.inner[1], data[i])],
                           LAMBDA items : CollectionCall(cls, items)))
      [] kind = "PrimitiveSerializer" -> PrimitiveCall(cls, value)
      [] kind = "DataclassSerializer" -> load(m, serializer.field.type, value, FALSE)
      [] kind = "DateTimeUtcTimestampSerializer" -> FromTimestamp(value)
      [] kind = "UuidSerializer" -> UuidCall(value)
      [] kind = "DecimalSerializer" -> DecimalCall(value)
      [] kind = "EnumSerializer" -> EnumCall(cls, value)
      [] kind = IntAsStrSerializer -> PyInt(value)))

\* SeriousModel.dump of the model of desc; root is `_ctx is None`.
dump(m, desc, o, root) ==
    IF ~(o.k = "obj" /\ o.s = desc.cls) THEN Failed("TypeMismatch")
    ELSE
    Bind(FieldSerializers(m, desc), LAMBDA fsers :
    \* dumping.run(f'.[{field}]', serializer, getattr(o, field))
    Bind([i \in 1..Len(fsers) |-> SerializerDump(m, fsers[i].serializer, o.m[fsers[i].name])],
         LAMBDA run :
    Bind(FirstFailed(run), LAMBDA failed :
    DumpExcept(root, IF failed = 0 THEN Returned(DictV(ByName(run, fsers)))
                     ELSE RaisedAt(run, failed, fsers)))))

\* serializer.dump(value, ctx)
SerializerDump(m, serializer, value) ==
    Bind(serializer.kind, LAMBDA kind :
    Bind(serializer.field.type.cls, LAMBDA cls :
    CASE kind = "MetadataSerializer" -> MetadataDump(value)
      [] kind = "OptionalSerializer" ->
            IF value = NoneV THEN Returned(NoneV)
            ELSE SerializerDump(m, serializer.inner[1], value)
      [] kind = "AnySerializer" -> Returned(value)
      [] kind = "DictSerializer" ->
            IF value.k # "dict" THEN Failed("AttributeError")
            ELSE Bind(KeySeq(DOMAIN value.m), LAMBDA keys :
                 ItemsDone([i \in 1..Len(keys) |->
                                SerializerDump(m, serializer.inner[1], value.m[keys[i]])],
                           LAMBDA items : Returned(DictOf(keys, items))))
      [] kind = "CollectionSerializer" ->
            IF ~Iterable(value) THEN Failed("TypeError")
            ELSE Bind(Items(value), LAMBDA data :
                 ItemsDone([i \in 1..Len(data) |->
                                SerializerDump(m, serializer.inner[1], data[i])],
                           LAMBDA items : Returned(ListV(items))))
      [] kind = "PrimitiveSerializer" -> PrimitiveCall(cls, value)
      [] kind = "DataclassSerializer" -> dump(m, serializer.field.type, value, FALSE)
      [] kind = "DateTimeUtcTimestampSerializer" ->
            IF value.k = "datetime" THEN Returned(FloatV(value.n)) ELSE Failed("AttributeError")
      [] kind = "UuidSerializer" -> Returned(PyStr(value))
      [] kind = "DecimalSerializer" -> Returned(PyStr(value))
      [] kind = "EnumSerializer" ->
            IF value.k = "enum" THEN Returned(MemberValue(value)) ELSE Failed("AttributeError")
      [] kind = IntAsStrSerializer -> Returned(PyStr(value))))

(***************************************************************************)
(* The inputs the calls are made with.                                     *)
(***************************************************************************)
\* The longest list, tuple or set among the inputs.
MaxLen == 2

\* The deepest nesting of dataclass instances among the inputs.
MaxDataDepth == 3

\* All sequences of at most MaxLen elements of S without repetition.
ShortSeqs(S) == {q \in UNION {[1..n -> S] : n \in 0..MaxLen} :
                    \A i, j \in DOMAIN q : i # j => q[i] # q[j]}

RECURSIVE Instances(_, _), InstanceFields(_, _)
\* Valid instances of the described type, with at most depth nested dataclasses.
Instances(desc, depth) ==
    IF desc.is_optional THEN {NoneV} \cup Instances(non_optional(desc), depth)
    ELSE CASE desc.is_dataclass ->
                IF depth = 0 THEN {}
                ELSE {o \in {ObjV(desc.cls, mp) : mp \in InstanceFields(fields(desc), depth - 1)} :
                        validate(o).err = ""}
           [] desc.cls = "int" -> {IntV(1), IntV(2)}
           [] desc.cls = "str" -> {StrV("a"), StrV("2")}
           [] desc.cls = "bool" -> {BoolV(TRUE)}
           [] desc.cls = "float" -> {FloatV(15)}
           [] desc.cls = "list" ->
                {ListV(q) : q \in ShortSeqs(Instances(desc.parameters["0"], depth))}
           [] desc.cls = "tuple" ->
                IF Cardinality(DOMAIN desc.parameters) = 2 /\ desc.parameters["1"].cls # "Ellipsis"
                THEN {TupleV(<<a, b>>) : a \in Instances(desc.parameters["0"], depth),
                                         b \in Instances(desc.parameters["1"], depth)}
                ELSE {TupleV(q) : q \in ShortSeqs(Instances(desc.parameters["0"], depth))}
           [] desc.cls = "set" ->
                {SetV(Range(q)) : q \in ShortSeqs(Instances(desc.parameters["0"], depth))}
           [] desc.cls = "dict" ->
                {DictV(EmptyMap)} \cup
                {DictV([key \in {"k"} |-> v]) : v \in Instances(desc.parameters["1"], depth)}
           [] desc.cls \in EnumClasses ->
                {EnumV(e.member) : e \in {x \in Members(desc.cls) :
                                            \/ x \in EnumMembers[desc.cls]
                                            \/ x.value.n = AllPermissions}}
           [] desc.cls = "datetime" -> {DatetimeV("utc", 15), DatetimeV("naive", 15)}
           [] desc.cls = "UUID" -> {UuidV(s) : s \in UuidLiterals}
           [] desc.cls = "Decimal" -> {DecimalV("1.5")}
           [] desc.cls = "Any" -> {IntV(1), StrV("a")}
           [] OTHER -> {}

\* The attribute values of the valid instances of a dataclass with the fields fds.
InstanceFields(fds, depth) ==
    IF fds = <<>> THEN {EmptyMap}
    ELSE {Put(rest, Head(fds).name, v) :
            rest \in InstanceFields(Tail(fds), depth),
            v \in IF Head(fds).metadata THEN {StrV("me@host")}
                  ELSE Instances(Head(fds).type, depth)}

RECURSIVE Spoiled(_)
\* Instances that do not keep to the declared types, which the language does
\* not enforce: o with None in one field, of o itself or of a record nested
\* in it.
Spoiled(o) ==
    {[o EXCEPT !.m[name] = NoneV] : name \in {n \in DOMAIN o.m : o.m[n] # NoneV}}
    \cup UNION {{[o EXCEPT !.m[name] = inner] : inner \in Spoiled(o.m[name])} :
                    name \in {n \in DOMAIN o.m : o.m[n].k = "obj"}}

\* Keys no dataclass declares; the empty string is a key JSON allows.
SurplusKeys == {"y", ""}

RECURSIVE TreeSamples(_, _), TreeFields(_, _)
\* Tree data offered to load for a value of the described type: well-formed
\* data, data of the wrong type, and objects with keys missing or added.
TreeSamples(desc, depth) ==
    LET top == depth = MaxDataDepth
        item == desc.parameters["0"]
    IN  IF desc.is_optional THEN {NoneV} \cup TreeSamples(non_optional(desc), depth)
        ELSE CASE desc.is_dataclass ->
                    IF depth = 0 THEN {DictV(EmptyMap)}
                    ELSE {DictV([key \in (DOMAIN mp) \cup extra |->
                                    IF key \in DOMAIN mp THEN mp[key] ELSE IntV(1)]) :
                            mp \in TreeFields(fields(desc), depth - 1),
                            extra \in IF top THEN SUBSET SurplusKeys ELSE {{}, {"y"}}}
               [] desc.cls = "int" -> IF top THEN {IntV(1), StrV("a"), NoneV} ELSE {IntV(1)}
               [] desc.cls = "str" -> IF top THEN {StrV("a"), NoneV} ELSE {StrV("a")}
               [] desc.cls = "bool" -> {BoolV(TRUE)}
               [] desc.cls = "float" -> {FloatV(15)}
               [] desc.cls \in {"list", "set", "tuple"} ->
                    {ListV(<<>>), NoneV} \cup
                    {ListV(<<v>>) : v \in TreeSamples(item, depth)} \cup
                    {ListV(<<v, IntV(2)>>) : v \in TreeSamples(item, depth) \cap {IntV(1)}}
               [] desc.cls = "dict" ->
                    {DictV(EmptyMap)} \cup
                    {DictV([key \in {"k"} |-> v]) : v \in TreeSamples(desc.parameters["1"], depth)}
               [] desc.cls \in EnumClasses ->
                    {e.value : e \in EnumMembers[desc.cls]} \cup {StrV("python")} \cup
                    IF desc.cls \in FlagClasses THEN {IntV(AllPermissions), IntV(MaxFlag)}
                    ELSE {}
               [] desc.cls = "datetime" -> {FloatV(15), StrV("a")}
               [] desc.cls = "UUID" -> {StrV(s) : s \in UuidLiterals} \cup {StrV("a")}
               [] desc.cls = "Decimal" -> {StrV("1.5"), StrV("a")}
               [] OTHER -> {IntV(1)}

\* The entries of the objects offered for a dataclass with the fields fds:
\* every field is absent or holds one of the samples of its type.
TreeFields(fds, depth) ==
    IF fds = <<>> THEN {EmptyMap}
    ELSE LET rest == TreeFields(Tail(fds), depth)
         IN  rest \cup {Put(mp, Head(fds).name, v) :
                            mp \in rest, v \in TreeSamples(Head(fds).type, depth)}

(***************************************************************************)
(* json/api.py, json/preconditions.py: the JSON schema over the model.     *)
(***************************************************************************)
\* The UnexpectedJson _check_that_loading_an_object raises, or no exception:
\* of what json.loads returns, a dict is a collections.Mapping.
_check_that_loading_an_object(data) ==
    IF data.k # "dict" THEN Failed("UnexpectedJson") ELSE Returned(NoneV)

\* The UnexpectedJson _check_that_loading_a_list raises, or no exception:
\* a collections.Collection is a sized, iterable container, a str among them.
_check_that_loading_a_list(data) ==
    IF data.k \notin {"dict", "list", "str"} THEN Failed("UnexpectedJson")
    ELSE IF data.k = "dict" THEN Failed("UnexpectedJson")
    ELSE Returned(NoneV)

\* What `for each in data` meets: the items of an array, the characters of
\* a string.
Each(data) ==
    IF data.k = "str" THEN [i \in 1..Len(data.s) |-> StrV(SubSeq(data.s, i, i))]
    ELSE Items(data)

\* JsonSchema._from_dict
_from_dict(m, data) == load(m, m.descriptor, data, TRUE)

\* JsonSchema.load of the text that json.loads decodes to data.
JsonSchemaLoad(m, data) ==
    IF _check_that_loading_an_object(data).err # "" THEN _check_that_loading_an_object(data)
    ELSE _from_dict(m, data)

\* JsonSchema.load_many of the text that json.loads decodes to data.
JsonSchemaLoadMany(m, data) ==
    IF _check_that_loading_a_list(data).err # "" THEN _check_that_loading_a_list(data)
    ELSE Bind(Each(data), LAMBDA items :
              ItemsDone([i \in 1..Len(items) |-> _from_dict(m, items[i])],
                        LAMBDA loaded : Returned(ListV(loaded))))

(***************************************************************************)
(* The program: a model is constructed for a class, then loads and dumps.  *)
(***************************************************************************)
\* The lists of serializer kinds callers construct a model with: the default
\* list, and the default list with custom kinds added.
SerializerLists == {field_serializers(<<>>),
                    field_serializers(<<IntAsStrSerializer>>),
                    field_serializers(<<"EnumSerializer">>)}

\* The classes a model is asked for: every dataclass declared without
\* generic bases, and a class that is none.
RootClasses == {cls \in Dataclasses : OrigBases(cls) = <<>>} \cup {"int"}

NoCall == [op |-> "none", input |-> NoneV, result |-> Returned(NoneV)]

Init == /\ model = [state |-> "none", cls |-> "",
                    cfg |-> [serializers |-> <<>>, allow_any |-> FALSE,
                             allow_missing |-> FALSE, allow_unexpected |-> FALSE],
                    descriptor |-> _any_type_desc,
                    err |-> "", at |-> "",
                    registry |-> <<>>, created |-> <<>>, instantiated |-> <<>>]
        /\ call = NoCall

\* The model a construction leaves: built, or failed with the error raised.
ModelOf(cls, cfg, descriptor) ==
    Bind(SeriousModelInit(descriptor, cfg, NewBuild, FALSE, 0), LAMBDA r :
         [state |-> IF r.err = "" THEN "built" ELSE "failed", cls |-> cls,
          cfg |-> cfg, descriptor |-> descriptor, err |-> r.err, at |-> r.at,
          registry |-> r.b.registry, created |-> r.b.created,
          instantiated |-> r.b.instantiated])

\* DictModel(cls, serializers, allow_any=.., allow_missing=.., allow_unexpected=..)
New(cls, serializers, allow_any, allow_missing, allow_unexpected) ==
    /\ model.state = "none"
    /\ model' = ModelOf(cls, [serializers |-> serializers, allow_any |-> allow_any,
                              allow_missing |-> allow_missing,
                              allow_unexpected |-> allow_unexpected],
                        describe(Cls(cls), EmptyMap))
    /\ call' = NoCall

\* model.load(data)
Load(data) ==
    /\ model.state = "built"
    /\ call.op = "none"
    /\ call' = [op |-> "load", input |-> data,
                result |-> load(model, model.descriptor, data, TRUE)]
    /\ UNCHANGED model

\* model.dump(o)
Dump(o) ==
    /\ model.state = "built"
    /\ call.op = "none"
    /\ call' = [op |-> "dump", input |-> o,
                result |-> dump(model, model.descriptor, o, TRUE)]
    /\ UNCHANGED model

\* schema.load(json_), for the text of the payload data
JsonLoad(data) ==
    /\ model.state = "built"
    /\ call.op = "none"
    /\ call' = [op |-> "json_load", input |-> data, result |-> JsonSchemaLoad(model, data)]
    /\ UNCHANGED model

\* schema.load_many(json_), for the text of the payload data
JsonLoadMany(data) ==
    /\ model.state = "built"
    /\ call.op = "none"
    /\ call' = [op |-> "json_load_many", input |-> data,
                result |-> JsonSchemaLoadMany(model, data)]
    /\ UNCHANGED model

\* The caller takes the result of the call, or catches its exception.
Return ==
    /\ call.op # "none"
    /\ call' = NoCall
    /\ UNCHANGED model

\* The inputs of the calls a caller can make in the current state.
Ready == model.state = "built" /\ call.op = "none"

\* Tree data for the root record, and one payload that is no mapping.
LoadInputs == IF Ready THEN TreeSamples(model.descriptor, MaxDataDepth) \cup {ListV(<<>>)} ELSE {}

\* Instances of the root record, instances that do not keep to the declared
\* types, one object that is no record and one record of another class.
DumpInputs ==
    IF Ready
    THEN Bind(Instances(model.descriptor, MaxDataDepth), LAMBDA instances :
              instances \cup UNION {Spoiled(o) : o \in instances}
                        \cup {IntV(1), ObjV("Other", EmptyMap)})
    ELSE {}

\* The payloads json.loads decodes: objects, arrays of objects, strings, a
\* number, a boolean and null.
JsonPayloads ==
    IF Ready
    THEN Bind(TreeSamples(model.descriptor, 1), LAMBDA objects :
              objects \cup {ListV(<<>>)} \cup {ListV(<<o>>) : o \in objects}
                      \cup {StrV(""), StrV("a"), IntV(1), BoolV(TRUE), NoneV})
    ELSE {}

Next == \/ \E cls \in RootClasses, serializers \in SerializerLists,
              allow_any, allow_missing, allow_unexpected \in BOOLEAN :
                New(cls, serializers, allow_any, allow_missing, allow_unexpected)
        \/ \E data \in LoadInputs : Load(data)
        \/ \E o \in DumpInputs : Dump(o)
        \/ \E data \in JsonPayloads : JsonLoad(data)
        \/ \E data \in JsonPayloads : JsonLoadMany(data)
        \/ Return

Spec == Init /\ [][Next]_vars

(***************************************************************************)
(* What the formulas below speak about.                                    *)
(***************************************************************************)
\* The last call was a load of a mapping by the root model.
LoadedMapping == call.op = "load" /\ call.input.k = "dict"

\* The keys of the data of the last load.
DataKeys == DOMAIN call.input.m

\* The declared fields of the root record that the data of the last load lacks.
AbsentFields == {f \in Range(DataclassFields[model.cls]) : f.name \notin DataKeys}

AbsentNoDefault == {f \in AbsentFields : f.default.kind = "MISSING"}

AbsentWithDefault == {f \in AbsentFields : f.default.kind # "MISSING"}

\* The keys of the data of the last load that no field declares.
SurplusOfData == DataKeys \ FieldNames(model.cls)

\* dict(data, name=None)
WithNone(data, name) == DictV(Put(data.m, name, NoneV))

\* The data restricted to the declared field names.
Restricted(data, cls) == DictV([key \in (DOMAIN data.m) \cap FieldNames(cls) |-> data.m[key]])

\* The serializer the root model bound to a field.
BoundTo(name) ==
    (CHOOSE fs \in Range(FieldSerializers(model, model.descriptor)) : fs.name = name).serializer

\* No field of the root record declares load and dump functions of its own.
NoMetadata == \A f \in Range(DataclassFields[model.cls]) : ~f.metadata

C2_MissingOnlyWithoutDefault ==
    (LoadedMapping /\ ~model.cfg.allow_missing)
    => /\ (call.result.err = "MissingField") <=> (AbsentNoDefault # {})
       /\ call.result.err = "MissingField"
            => call.result.names = {f.name : f \in AbsentNoDefault}

\* C2 as amended: with allow_missing=False load fails with MissingField if and
\* only if a declared field, with or without default, is absent from the data,
\* and the error names exactly the absent declared fields.
C2_MissingAnyDeclared ==
    (LoadedMapping /\ ~model.cfg.allow_missing)
    => /\ (call.result.err = "MissingField") <=> (AbsentFields # {})
       /\ call.result.err = "MissingField"
            => call.result.names = {f.name : f \in AbsentFields}

\* A load with allow_missing=False that lacked only a field with a default,
\* and failed with MissingField naming it.
C2_Witness ==
    /\ LoadedMapping
    /\ ~model.cfg.allow_missing
    /\ AbsentNoDefault = {}
    /\ AbsentWithDefault # {}
    /\ call.result.err = "MissingField"
    /\ call.result.names = {f.name : f \in AbsentWithDefault}

C4_DefaultKept ==
    (LoadedMapping /\ model.cfg.allow_missing)
    => /\ \A f \in AbsentWithDefault :
             /\ f.name \notin _fields_missing_from(call.input.m, model.cls)
             /\ call.result.err = "" => call.result.value.m[f.name] = f.default.value
       /\ call.result.err = "LoadError"
             => \A f \in AbsentWithDefault : call.result.stack[1] # ".[" \o f.name \o "]"

\* Student(id=0, name="student") loaded from {"id": 1} with allow_missing=True
\* has the name "student".
C4_Witness ==
    /\ LoadedMapping
    /\ model.cfg.allow_missing
    /\ model.cls = "Student"
    /\ DataKeys = {"id"}
    /\ call.result.err = ""
    /\ call.result.value.m["name"] = StrV("student")

\* C5: with allow_unexpected=False a load that passes the missing-field check
\* fails with UnexpectedItem exactly if the data has a key that is no declared
\* field, whatever that key is, and the error names exactly those keys.
C5_UnexpectedWhateverKey ==
    ( /\ LoadedMapping
      /\ ~model.cfg.allow_unexpected
      /\ call.result.err # "MissingField" )
    => /\ (call.result.err = "UnexpectedItem") <=> (SurplusOfData # {})
       /\ call.result.err = "UnexpectedItem" => call.result.names = SurplusOfData

\* C6: with allow_unexpected=True the keys that are no declared fields are
\* ignored: load returns what it returns for the data restricted to the
\* declared field names, never UnexpectedItem, and the record holds the
\* declared fields only.
C6_SurplusIgnored ==
    (LoadedMapping /\ model.cfg.allow_unexpected)
    => /\ call.result = load(model, model.descriptor, Restricted(call.input, model.cls), TRUE)
       /\ call.result.err # "UnexpectedItem"
       /\ call.result.err = "" => DOMAIN call.result.value.m = FieldNames(model.cls)

\* A load with allow_unexpected=True of data with a surplus key succeeded.
C6_Witness ==
    /\ LoadedMapping
    /\ model.cfg.allow_unexpected
    /\ "y" \in SurplusOfData
    /\ call.result.err = ""

(***************************************************************************)
(* C7 - C10: construction of the model.                                    *)
(***************************************************************************)
\* The types written in the annotation type_ and in the declarations of the
\* records it mentions: every generic argument, every field type.
RECURSIVE TypesWritten(_, _)
TypesWritten(type_, seen) ==
    {type_}
    \cup UNION {TypesWritten(type_.args[i], seen) : i \in 1..Len(type_.args)}
    \cup IF ~type_.alias /\ type_.origin \in Dataclasses \ seen
         THEN UNION {TypesWritten(f.type, seen \cup {type_.origin}) :
                        f \in Range(DataclassFields[type_.origin])}
         ELSE {}

\* The types reachable from the root record of the model.
ReachableTypes == TypesWritten(Cls(model.cls), {})

\* A model was asked for a dataclass: built, or failed in construction.
Constructed == model.state # "none" /\ model.cls \in Dataclasses

\* The unconstrained-any marker: Any itself, or a bare collection class.
IsAnyMarker(type_) ==
    \/ type_ = AnyT
    \/ ~type_.alias /\ type_.origin \in {"list", "set", "frozenset", "tuple", "dict"}

MentionsAny == \E type_ \in ReachableTypes : IsAnyMarker(type_)

IsUnion(type_) == type_.alias /\ type_.origin = "Union"

\* A union of two variants one of which is None, in either order.
IsUnionWithNone(type_) ==
    IsUnion(type_) /\ Len(type_.args) = 2 /\ NoneT \in Range(type_.args)

\* The variant of a union with None that is not None.
OtherVariant(type_) == IF type_.args[1] = NoneT THEN type_.args[2] ELSE type_.args[1]

MentionsOtherUnion == \E type_ \in ReachableTypes : IsUnion(type_) /\ ~IsUnionWithNone(type_)

\* C7: with allow_any=False the construction of a model for a record that
\* reaches Any (an Any field, a generic argument Any, a bare list, set,
\* frozenset, tuple or dict, at any depth) fails with ModelContainsAny before
\* a field serializer is instantiated and before a load or dump is made; with
\* allow_any=True the construction does not raise ModelContainsAny.
C7_AnyRejectedAtConstruction ==
    Constructed
    => /\ (~model.cfg.allow_any /\ MentionsAny)
            => /\ model.state = "failed"
               /\ model.err = "ModelContainsAny"
               /\ model.instantiated = <<>>
               /\ call.op = "none"
       /\ model.cfg.allow_any => model.err # "ModelContainsAny"

\* The construction for DeepAny, which reaches a bare list through a dict, a
\* list, a record and an optional, failed with ModelContainsAny.
C7_Witness ==
    /\ model.cls = "DeepAny"
    /\ ~model.cfg.allow_any
    /\ model.state = "failed"
    /\ model.err = "ModelContainsAny"
    /\ model.instantiated = <<>>

\* C8: every union of two variants with None, in either order, is described
\* as its other variant with is_optional set, adds no Union to the scanned
\* types and does not cause ModelContainsUnion; every other union the record
\* reaches makes the construction fail with ModelContainsUnion.
C8_UnionWithNoneIsOptional ==
    Constructed
    => /\ \A type_ \in ReachableTypes :
             IsUnionWithNone(type_)
             => LET desc == describe(type_, EmptyMap)
                IN  /\ desc.is_optional
                    /\ desc.cls = OtherVariant(type_).origin
                    /\ "Union" \notin Range(scan_types(desc).types)
       /\ ~MentionsOtherUnion => model.err # "ModelContainsUnion"
       /\ (MentionsOtherUnion /\ (model.cfg.allow_any \/ ~MentionsAny))
            => model.err = "ModelContainsUnion"

\* kinds[p] fits the field, and no kind before it in the list does.
FitsFirst(kinds, p, field) ==
    /\ Fits(kinds[p], field)
    /\ \A q \in 1..(p - 1) : ~Fits(kinds[q], field) /\ ~FitsRaises(kinds[q], field)

\* The built-in kinds in the order of the default list, after the first two.
BuiltInOrder ==
    <<"AnySerializer", "DictSerializer", "CollectionSerializer", "PrimitiveSerializer",
      "DataclassSerializer", "DateTimeUtcTimestampSerializer", "UuidSerializer",
      "DecimalSerializer", "EnumSerializer">>

\* C9: every field serializer that is instantiated, and so every serializer
\* bound to a field, is of the first kind of the caller's list that fits its
\* descriptor, and no later kind is instantiated for it; the default list is
\* metadata, optional, the custom kinds, then the built-in kinds in order.
C9_FirstMatch ==
    Constructed
    => LET kinds == model.cfg.serializers
       IN  /\ \A i \in 1..Len(model.instantiated) :
                 \E p \in 1..Len(kinds) :
                    /\ kinds[p] = model.instantiated[i].kind
                    /\ FitsFirst(kinds, p, model.instantiated[i].field)
           /\ model.state = "built"
                 => \A f \in Range(fields(model.descriptor)) :
                       \E p \in 1..Len(kinds) :
                          /\ kinds[p] = BoundTo(f.name).kind
                          /\ FitsFirst(kinds, p, FieldDescriptor(f.type, f.metadata))
           /\ \E n \in 0..1 :
                 /\ Len(kinds) = 2 + n + Len(BuiltInOrder)
                 /\ SubSeq(kinds, 1, 2) = <<"MetadataSerializer", "OptionalSerializer">>
                 /\ SubSeq(kinds, 3 + n, Len(kinds)) = BuiltInOrder

\* A custom kind was bound to an int field that the primitive kind, later in
\* the list, fits as well.
C9_Witness ==
    /\ model.state = "built"
    /\ \E f \in Range(fields(model.descriptor)) :
          /\ BoundTo(f.name).kind = IntAsStrSerializer
          /\ Fits("PrimitiveSerializer", FieldDescriptor(f.type, f.metadata))
    /\ \A i \in 1..Len(model.instantiated) :
          model.instantiated[i].kind # "PrimitiveSerializer"
             \/ model.instantiated[i].field.type.cls # "int"

\* The descriptors a construction resolves a serializer for, from the field
\* descriptor fd on: the field type, the inner type of an optional, the item
\* parameter of a collection, the value parameter of a mapping, and the same
\* of the fields of a nested record.
RECURSIVE Positions(_, _)
Positions(fd, seen) ==
    LET type == fd.type
        sub(desc) == Positions(FieldDescriptor(desc, fd.metadata), seen)
    IN  {fd} \cup
        CASE fd.metadata -> {}
          [] type.is_optional -> sub(non_optional(type))
          [] type.cls = "dict" /\ "1" \in DOMAIN type.parameters -> sub(type.parameters["1"])
          [] type.cls \in {"list", "set", "frozenset", "tuple"} /\ "0" \in DOMAIN type.parameters ->
                sub(type.parameters["0"])
          [] type.is_dataclass /\ type \notin seen ->
                UNION {Positions(FieldDescriptor(f.type, f.metadata), seen \cup {type}) :
                          f \in Range(fields(type))}
          [] OTHER -> {}

\* The positions of the root record of the model that no kind of its list fits.
UnfitPositions ==
    {fd \in UNION {Positions(FieldDescriptor(f.type, f.metadata), {model.descriptor}) :
                      f \in Range(fields(model.descriptor))} :
        \A p \in 1..Len(model.cfg.serializers) : ~Fits(model.cfg.serializers[p], fd)}

\* The last call raised the unsupported-type error, bare or wrapped.
CallUnsupported ==
    call.result.err = "UnsupportedType" \/ call.result.cause = "UnsupportedType"

SelfFields == {f \in Range(DataclassFields[model.cls]) : f.type = OptionalT(Cls(model.cls))}

\* The tree of an instance x of the root record: the record in a self field
\* as the tree of that record, None as null, every other field as its
\* serializer dumps it.
RECURSIVE NestedTree(_)
NestedTree(x) ==
    DictV([name \in FieldNames(model.cls) |->
            IF name \in {f.name : f \in SelfFields}
            THEN IF x.m[name] = NoneV THEN NoneV ELSE NestedTree(x.m[name])
            ELSE SerializerDump(model, BoundTo(name), x.m[name]).value])

\* The deepest nesting of instances of the root record in x.
RECURSIVE NestingDepth(_)
NestingDepth(x) ==
    IF x.k # "obj" THEN 0
    ELSE 1 + IF SelfFields = {} THEN 0
             ELSE LET name == (CHOOSE f \in SelfFields : TRUE).name
                  IN  NestingDepth(x.m[name])

\* C11: the construction of a model for a record with an optional field of
\* its own type ends with a built model; SeriousModel.__init__ was entered
\* for the root descriptor only, the registry holds that one model, and the
\* self field is bound, through the optional serializer, to a record
\* serializer of the root descriptor; dump of every instance that keeps to
\* the declared types returns its nested tree, and load of that tree
\* returns the instance.
C11_SelfReferenceTerminates ==
    (Constructed /\ SelfFields # {})
    => /\ model.state = "built"
       /\ model.created = <<model.descriptor>>
       /\ Len(model.registry) = 1
       /\ model.registry[1].descriptor = model.descriptor
       /\ \A f \in SelfFields :
             /\ BoundTo(f.name).kind = "OptionalSerializer"
             /\ BoundTo(f.name).inner[1].kind = "DataclassSerializer"
             /\ BoundTo(f.name).inner[1].field.type = model.descriptor
       /\ (call.op = "dump" /\ call.input \in Instances(model.descriptor, MaxDataDepth))
             => /\ call.result = Returned(NestedTree(call.input))
                /\ load(model, model.descriptor, call.result.value, TRUE)
                      = Returned(call.input)

\* A Chain nested three deep was dumped to the tree nested three deep.
C11_Witness ==
    /\ model.cls = "Chain"
    /\ model.state = "built"
    /\ call.op = "dump"
    /\ call.input.k = "obj"
    /\ NestingDepth(call.input) = MaxDataDepth
    /\ call.result.err = ""
    /\ call.result.value.m["next"].m["next"].m["next"] = NoneV

(***************************************************************************)
(* C12 - C15: the errors of load.                                          *)
(***************************************************************************)
\* The last call was a load of a mapping that raised.
LoadRaised == LoadedMapping /\ call.result.err # ""

DumpRaised == call.op = "dump" /\ call.result.err # ""

\* The exceptions the root calls wrap failures in.
Wrappers == {"LoadError", "DumpError"}

RECURSIVE AllValid(_)
AllValid(v) ==
    /\ v.k = "obj" => validate(v).err = ""
    /\ \A i \in DOMAIN v.items : AllValid(v.items[i])
    /\ \A key \in DOMAIN v.m : AllValid(v.m[key])
    /\ \A e \in v.elems : AllValid(e)

\* C14: a ValidationError of the root record or of a record nested in it
\* reaches the caller of load as it was raised: the root call raises what a
\* nested call raises, no LoadError has a ValidationError as its cause, and
\* a load that returns returns only records that pass their hooks.
C14_ValidationErrorUnwrapped ==
    LoadedMapping
    => /\ load(model, model.descriptor, call.input, FALSE).err = "ValidationError"
             => /\ call.result = load(model, model.descriptor, call.input, FALSE)
                /\ call.result.cause = ""
       /\ call.result.err = "LoadError" => call.result.cause # "ValidationError"
       /\ call.result.err = "" => AllValid(call.result.value)

\* A Checked without x, three records deep in the data, made the root load
\* raise ValidationError.
C14_Witness ==
    /\ LoadedMapping
    /\ model.cls = "CheckedDeep"
    /\ call.result.err = "ValidationError"
    /\ call.result.stack = <<".[holder]", ".[inner]">>
    /\ call.input.m["holder"].m["inner"].m["x"] = NoneV


\* The least number of a non-empty set of numbers.
Least(S) == CHOOSE i \in S : \A j \in S : i <= j

\* The segments from a value to the value in it whose load fails first: the
\* field of a record, the index of an item, the key of an entry.
RECURSIVE PathIn(_, _), RecordPath(_, _)
PathIn(serializer, value) ==
    LET kind == serializer.kind
        failing(items) == {i \in 1..Len(items) :
                              SerializerLoad(model, serializer.inner[1], items[i]).err # ""}
    IN  CASE kind = "OptionalSerializer" /\ value # NoneV -> PathIn(serializer.inner[1], value)
          [] kind = "CollectionSerializer" /\ Iterable(value) /\ failing(Items(value)) # {} ->
                LET i == Least(failing(Items(value)))
                IN  <<"[" \o ToString(i - 1) \o "]">> \o PathIn(serializer.inner[1], Items(value)[i])
          [] kind = "DictSerializer" /\ value.k = "dict" ->
                LET keys == KeySeq(DOMAIN value.m)
                    values == [i \in 1..Len(keys) |-> value.m[keys[i]]]
                IN  IF failing(values) = {} THEN <<>>
                    ELSE LET i == Least(failing(values))
                         IN  <<"[" \o keys[i] \o "]">> \o PathIn(serializer.inner[1], values[i])
          [] kind = "DataclassSerializer" /\ value.k = "dict" ->
                RecordPath(serializer.field.type, value)
          [] OTHER -> <<>>

RecordPath(desc, data) ==
    LET mut_data == MutData(model.cfg, desc.cls, data.m)
        fsers == FieldSerializers(model, desc)
        failing == {i \in 1..Len(fsers) :
                      /\ fsers[i].name \in DOMAIN mut_data
                      /\ LoadingRun(model, fsers[i].serializer, mut_data[fsers[i].name]).err # ""}
    IN  IF \/ ~model.cfg.allow_missing /\ _check_for_missing(desc.cls, mut_data) # {}
           \/ UnexpectedRaised(model.cfg, desc.cls, mut_data)
           \/ failing = {}
        THEN <<>>
        ELSE <<".[" \o fsers[Least(failing)].name \o "]">>
                \o PathIn(fsers[Least(failing)].serializer, mut_data[fsers[Least(failing)].name])

\* C15: the LoadError of a root load carries the path from the root to the
\* value that failed, one segment for every field, index and key on the way,
\* from the root to the leaf; of several fields that fail, the path is that
\* of the first in declaration order.
C15_PathToFailure ==
    (LoadRaised /\ call.result.err = "LoadError")
    => call.result.stack = RecordPath(model.descriptor, call.input)


(***************************************************************************)
(* C16: dump.                                                              *)
(***************************************************************************)
\* The object of the last dump is an instance of the record of the model.
DumpedInstance == call.op = "dump" /\ call.input.k = "obj" /\ call.input.s = model.cls

\* The field names in the order the model dumps them.
DumpOrder ==
    [i \in 1..Len(FieldSerializers(model, model.descriptor)) |->
        FieldSerializers(model, model.descriptor)[i].name]

\* The field names in the order the record declares them.
DeclarationOrder ==
    [i \in 1..Len(DataclassFields[model.cls]) |-> DataclassFields[model.cls][i].name]

\* C16: dump of an object that is no instance of the record of the model
\* raises the type-mismatch error, with no step entered; dump of a valid
\* instance returns a map with exactly the declared field names as keys,
\* taken in declaration order, each with what the serializer of the field
\* dumps for the value of the field, a field that holds its default
\* included.  Only an instance that does not keep to the declared types
\* makes dump raise a DumpError.
C16_DumpContract ==
    call.op = "dump"
    => /\ ~DumpedInstance => call.result = Failed("TypeMismatch")
       /\ DumpedInstance
             => /\ call.result.err \in {"", "DumpError"}
                /\ DumpOrder = DeclarationOrder
                /\ call.result.err = ""
                      => /\ call.result.value.k = "dict"
                         /\ DOMAIN call.result.value.m = FieldNames(model.cls)
                         /\ \A name \in FieldNames(model.cls) :
                               call.result.value.m[name]
                                  = SerializerDump(model, BoundTo(name), call.input.m[name]).value
                /\ call.input \in Instances(model.descriptor, MaxDataDepth)
                      => call.result.err = ""

(***************************************************************************)
(* C17: the JSON schema.                                                   *)
(***************************************************************************)
\* C17: load of a payload that is no single object, and load_many of a
\* payload that is no array (an object, a string, a number, a boolean,
\* null), raise UnexpectedJson and do not call the load of the model; the
\* load of the model is called for an object, and for the items of an array.
C17_ShapeCheckedBeforeCore ==
    /\ call.op = "json_load"
          => call.result = IF call.input.k = "dict"
                           THEN load(model, model.descriptor, call.input, TRUE)
                           ELSE Failed("UnexpectedJson")
    /\ call.op = "json_load_many"
          => /\ call.input.k # "list" => call.result = Failed("UnexpectedJson")
             /\ call.result.err = "TypeMismatch"
                   => \E i \in DOMAIN call.input.items : call.input.items[i].k # "dict"

(***************************************************************************)
(* C18: enum fields.                                                       *)
(***************************************************************************)
\* The enum class of a field of an enum type, of a list of enums or of a
\* mapping to enums; "" for any other field.
EnumOf(type) ==
    CASE type.cls \in EnumClasses -> type.cls
      [] type.cls = "list" /\ type.parameters["0"].cls \in EnumClasses -> type.parameters["0"].cls
      [] type.cls = "dict" /\ type.parameters["1"].cls \in EnumClasses -> type.parameters["1"].cls
      [] OTHER -> ""

\* The raw values data holds for a field of the type.
RawValues(type, data) ==
    CASE type.cls \in EnumClasses -> {data}
      [] data.k = "list" -> Range(data.items)
      [] data.k = "dict" -> Range(data.m)
      [] OTHER -> {}

\* Rel between a and b, between the items of two lists, between the values
\* of two mappings.
Aligned(a, b, Rel(_, _)) ==
    CASE a.k = "list" -> /\ b.k = "list"
                         /\ Len(a.items) = Len(b.items)
                         /\ \A i \in DOMAIN a.items : Rel(a.items[i], b.items[i])
      [] a.k = "dict" -> /\ b.k = "dict"
                         /\ DOMAIN a.m = DOMAIN b.m
                         /\ \A key \in DOMAIN a.m : Rel(a.m[key], b.m[key])
      [] OTHER -> Rel(a, b)

\* dumped is the raw value of member: a member of an enum that mixes in str
\* or int is equal (==) to its value.
IsRawValueOf(member, dumped) ==
    /\ member.k = "enum"
    /\ PyEq(MemberValue(member),
            IF dumped.k = "enum" /\ Mro(MemberClass(dumped)) \cap {"str", "int"} # {}
            THEN MemberValue(dumped) ELSE dumped)

\* member is the member with the value raw.
IsMemberWith(raw, member) == member.k = "enum" /\ PyEq(MemberValue(member), raw)

\* raw is the value of a member of cls: a declared member, or for a flag a
\* combination of declared members.
MatchesMember(cls, raw) ==
    \/ \E e \in EnumMembers[cls] : PyEq(e.value, raw)
    \/ cls \in FlagClasses /\ raw.k \in {"int", "bool"} /\ raw.n \in 0..AllPermissions

\* C18: for a field of an enum type, a list of enums or a str-keyed mapping
\* to enums (enums that mix in str or int included), dump yields the raw
\* values of the members, load returns the members with the raw values, and
\* a raw value of no member makes the load fail: at the root with a
\* LoadError caused by the failed lookup (ValueError).
C18_EnumRoundTrip ==
    model.state = "built" /\ model.descriptor.is_dataclass =>
    \A i \in DOMAIN fields(model.descriptor) :
        LET f == fields(model.descriptor)[i]
            step == ".[" \o f.name \o "]"
        IN  EnumOf(f.type) # "" =>
            /\ call.op = "dump" /\ call.result.err = "" /\ call.input.m[f.name] # NoneV
                  => Aligned(call.input.m[f.name], call.result.value.m[f.name], IsRawValueOf)
            /\ call.op = "load" /\ call.input.k = "dict" /\ f.name \in DOMAIN call.input.m
                  => /\ call.result.err = ""
                        => Aligned(call.input.m[f.name], call.result.value.m[f.name],
                                   IsMemberWith)
                     /\ (\E raw \in RawValues(f.type, call.input.m[f.name]) :
                            ~MatchesMember(EnumOf(f.type), raw))
                        => /\ call.result.err # ""
                           /\ call.result.err = "LoadError" /\ call.result.stack = <<step>>
                                 => call.result.cause = "ValueError"

(***************************************************************************)
(* C19: describing the class of a descriptor again.                        *)
(***************************************************************************)
\* The descriptors describe produces for the types written in the classes
\* of the model; the generic bindings of these classes are empty.
Described == {describe(t, EmptyMap) : t \in ReachableTypes}

\* describe(d.cls) with the same generic bindings
Redescribed(d) == describe(Cls(d.cls), EmptyMap)

\* The parameters of a class written without arguments.
BareParameters(cls) ==
    CASE cls \in {"list", "set", "frozenset"} -> [k \in {"0"} |-> _any_type_desc]
      [] cls = "tuple" -> [k \in {"0", "1"} |-> IF k = "0" THEN _any_type_desc
                                                ELSE _ellipsis_type_desc]
      [] cls = "dict" -> [k \in {"0", "1"} |-> _any_type_desc]
      [] OTHER -> EmptyMap

Callers == {1, 2}

\* A caller outside of any call; prior tells whether its previous call
\* raised.
Idle(prior) ==
    [pc |-> "idle", op |-> "none", input |-> NoneV, mut_data |-> EmptyMap, i |-> 0,
     kwargs |-> EmptyMap, result |-> Returned(NoneV), error_data |-> NoneV, prior |-> prior]

InitShared ==
    /\ \E cls \in {"DataClassWithDataClass"}, allow_missing \in BOOLEAN :
          model = ModelOf(cls, [serializers |-> field_serializers(<<>>), allow_any |-> FALSE,
                                allow_missing |-> allow_missing, allow_unexpected |-> FALSE],
                          describe(Cls(cls), EmptyMap))
    /\ call = [inv |-> [t \in Callers |-> Idle(FALSE)], steps |-> [t \in Callers |-> <<>>]]

\* A faulty context: one Loading or Dumping kept for all calls.
ContextShared(t) == 1

\* loading = Loading() if root else _ctx: the context of the root call of
\* caller t is the one the call has made.
Context(t) == t

\* The statements of SeriousModel.load before the try block: the exception
\* they raise, or mut_data.
BeforeTry(m, desc, data) ==
    IF data.k # "dict" THEN Failed("TypeMismatch")
    ELSE Bind(MutData(Flags(m, desc), desc.cls, data.m), LAMBDA mut_data :
         Bind(IF Flags(m, desc).allow_missing THEN {} ELSE _check_for_missing(desc.cls, mut_data),
              LAMBDA missing :
         IF missing # {} THEN [Failed("MissingField") EXCEPT !.names = missing]
         ELSE IF UnexpectedRaised(Flags(m, desc), desc.cls, mut_data)
         THEN [Failed("UnexpectedItem") EXCEPT
                    !.names = _check_for_unexpected(desc.cls, mut_data)]
         ELSE Returned(DictV(mut_data))))

\* The field serializers the comprehension of the call goes through.
Todo(inv) ==
    IF inv.op = "load"
    THEN SelectSeq(FieldSerializers(model, model.descriptor),
                   LAMBDA fs : fs.name \in DOMAIN inv.mut_data)
    ELSE FieldSerializers(model, model.descriptor)

\* Caller t calls model.load(data).
BeginLoad(t, data) ==
    /\ call.inv[t].pc = "idle"
    /\ Bind(BeforeTry(model, model.descriptor, data), LAMBDA checked :
            call' = [inv |-> [call.inv EXCEPT ![t] =
                                [@ EXCEPT !.pc = IF checked.err = "" THEN "fields" ELSE "done",
                                          !.op = "load", !.input = data,
                                          !.mut_data = checked.value.m, !.i = 1,
                                          !.kwargs = EmptyMap, !.result = checked]],
                     steps |-> IF data.k = "dict"
                               THEN [call.steps EXCEPT ![Context(t)] = <<>>]
                               ELSE call.steps])
    /\ UNCHANGED model

\* Caller t calls model.dump(o).
BeginDump(t, o) ==
    /\ call.inv[t].pc = "idle"
    /\ Bind(o.k = "obj" /\ o.s = model.descriptor.cls, LAMBDA is_instance :
            call' = [inv |-> [call.inv EXCEPT ![t] =
                                [@ EXCEPT !.pc = IF is_instance THEN "fields" ELSE "done",
                                          !.op = "dump", !.input = o, !.i = 1,
                                          !.kwargs = EmptyMap,
                                          !.result = IF is_instance THEN Returned(NoneV)
                                                     ELSE Failed("TypeMismatch")]],
                     steps |-> IF is_instance
                               THEN [call.steps EXCEPT ![Context(t)] = <<>>]
                               ELSE call.steps])
    /\ UNCHANGED model

\* _entering: self._steps.append(SerializationStep(step, serializer))
Enter(t) ==
    /\ call.inv[t].pc = "fields"
    /\ call.inv[t].i <= Len(Todo(call.inv[t]))
    /\ call' = [inv |-> [call.inv EXCEPT ![t].pc = "entered"],
                steps |-> [call.steps EXCEPT ![Context(t)] =
                            Append(@, ".[" \o Todo(call.inv[t])[call.inv[t].i].name \o "]")]]
    /\ UNCHANGED model

\* The rest of run: the serializer loads or dumps the value of the field,
\* nested records with the same context, and the step is popped; a raise
\* leaves the steps entered.
Run(t) ==
    /\ call.inv[t].pc = "entered"
    /\ Bind(call.inv[t], LAMBDA inv :
       Bind(Todo(inv)[inv.i], LAMBDA fs :
       Bind(IF inv.op = "load" THEN LoadingRun(model, fs.serializer, inv.mut_data[fs.name])
            ELSE SerializerDump(model, fs.serializer, inv.input.m[fs.name]), LAMBDA r :
            call' = IF r.err = ""
                    THEN [inv |-> [call.inv EXCEPT ![t] =
                                     [@ EXCEPT !.pc = "fields", !.i = @ + 1,
                                               !.kwargs = Put(@, fs.name, r.value)]],
                          steps |-> [call.steps EXCEPT ![Context(t)] =
                                        SubSeq(@, 1, Len(@) - 1)]]
                    ELSE [inv |-> [call.inv EXCEPT ![t] =
                                     [@ EXCEPT !.pc = "raised", !.result = r]],
                          steps |-> [call.steps EXCEPT ![Context(t)] = @ \o r.stack]])))
    /\ UNCHANGED model

\* After the last field: load makes and validates the instance, dump returns
\* the dict.
Finish(t) ==
    /\ call.inv[t].pc = "fields"
    /\ call.inv[t].i > Len(Todo(call.inv[t]))
    /\ Bind(IF call.inv[t].op = "load"
            THEN Construct(model.descriptor.cls, call.inv[t].kwargs)
            ELSE Returned(DictV(call.inv[t].kwargs)), LAMBDA r :
            call' = [call EXCEPT !.inv[t] =
                        [@ EXCEPT !.pc = IF r.err = "" THEN "done" ELSE "raised",
                                  !.result = r]])
    /\ UNCHANGED model

\* A faulty third argument of LoadError: the copy with the entries added.
LoadErrorDataAugmented(data, mut_data) == DictV(mut_data)

\* The third argument of LoadError(self._cls, loading.stack, data).
LoadErrorData(data, mut_data) == data

\* except Exception as e: of the root call, with loading.stack or
\* dumping.stack; error_data is the data the LoadError is made with.
Except(t) ==
    /\ call.inv[t].pc = "raised"
    /\ Bind([call.inv[t].result EXCEPT !.stack = call.steps[Context(t)]], LAMBDA e :
            call' = [call EXCEPT !.inv[t] =
                        [@ EXCEPT !.pc = "done",
                                  !.result = IF call.inv[t].op = "load"
                                             THEN LoadExcept(TRUE, e)
                                             ELSE DumpExcept(TRUE, e),
                                  !.error_data =
                                      IF call.inv[t].op = "load"
                                           /\ LoadExcept(TRUE, e).err = "LoadError"
                                      THEN LoadErrorData(call.inv[t].input, call.inv[t].mut_data)
                                      ELSE @]])
    /\ UNCHANGED model

\* The call of caller t is over.
Leave(t) ==
    /\ call.inv[t].pc = "done"
    /\ call' = [call EXCEPT !.inv[t] = Idle(call.inv[t].result.err # "")]
    /\ UNCHANGED model

\* The data callers load: tree data of the root record without surplus keys
\* at the root, and one payload that is no mapping.
SharedLoadInputs ==
    {d \in TreeSamples(model.descriptor, MaxDataDepth) :
        DOMAIN d.m \subseteq FieldNames(model.descriptor.cls)} \cup {IntV(1)}

NextShared ==
    \E t \in Callers :
        \/ \E data \in SharedLoadInputs : BeginLoad(t, data)
        \/ \E o \in Bind(Instances(model.descriptor, MaxDataDepth), LAMBDA instances :
                        instances \cup UNION {Spoiled(o) : o \in instances} \cup {IntV(1)}) :
              BeginDump(t, o)
        \/ Enter(t)
        \/ Run(t)
        \/ Finish(t)
        \/ Except(t)
        \/ Leave(t)

SpecShared == InitShared /\ [][NextShared]_vars

(***************************************************************************)
(* C20: calls do not change the model and do not see each other.           *)
(***************************************************************************)
\* What the call of an invocation returns or raises when it runs alone.
Alone(inv) ==
    IF inv.op = "load" THEN load(model, model.descriptor, inv.input, TRUE)
    ELSE dump(model, model.descriptor, inv.input, TRUE)

\* C20: no step of a load or a dump, successful or failing, changes the
\* model (field serializers, registry, flags), and every call, whatever the
\* other caller does meanwhile and whatever calls came before, ends as it
\* does alone with a fresh context: its path holds its own entries only.
C20_CallsAreIsolated ==
    /\ [][model' = model]_vars
    /\ [](\A t \in Callers : call.inv[t].pc = "done" => call.inv[t].result = Alone(call.inv[t]))

\* A call that failed with a path, made after a call of the same caller
\* that failed too, while the other caller is inside a field of its call.
C20_Witness ==
    \E t, u \in Callers :
        /\ t # u
        /\ call.inv[t].pc = "done"
        /\ call.inv[t].result.err \in {"LoadError", "DumpError"}
        /\ call.inv[t].result.stack # <<>>
        /\ call.inv[t].prior
        /\ call.inv[u].pc = "entered"
        /\ call.steps[Context(u)] # <<>>
        /\ call.steps[Context(u)] # call.inv[t].result.stack

(***************************************************************************)
(* C21: the flags of child models.                                         *)
(***************************************************************************)
RECURSIVE NestedRecords(_, _)
\* The objects the data holds, at any depth, for the fields of desc that are
\* records or optional records, each with the class of its field.
NestedRecords(desc, data) ==
    UNION {{[cls |-> f.type.cls, m |-> data.m[f.name].m]}
             \cup NestedRecords(non_optional(f.type), data.m[f.name]) :
           f \in {g \in Range(fields(desc)) : /\ g.type.is_dataclass
                                              /\ g.name \in DOMAIN data.m
                                              /\ data.m[g.name].k = "dict"}}

\* C21: every model in the registry of a constructed root model has the
\* serializer list and the allow_any, allow_missing and allow_unexpected
\* flags of the root; so with allow_unexpected no load fails for a surplus
\* key and with allow_missing none for a missing field, and without the
\* flag a named surplus key or a missing field in a nested object fails the
\* load.
C21_ChildFlagsAreRootFlags ==
    Constructed =>
    /\ \A i \in 1..Len(model.registry) : model.registry[i].cfg = model.cfg
    /\ call.op = "load" /\ model.cfg.allow_unexpected
          => "UnexpectedItem" \notin {call.result.err, call.result.cause}
    /\ call.op = "load" /\ model.cfg.allow_missing
          => "MissingField" \notin {call.result.err, call.result.cause}
    /\ call.op = "load" /\ call.input.k = "dict"
          => \A o \in NestedRecords(model.descriptor, call.input) :
                /\ ~model.cfg.allow_unexpected /\ (DOMAIN o.m) \ (FieldNames(o.cls) \cup {""}) # {}
                      => call.result.err # ""
                /\ ~model.cfg.allow_missing /\ FieldNames(o.cls) \ DOMAIN o.m # {}
                      => call.result.err # ""

\* With allow_unexpected a load returned for data with a surplus key in a
\* nested object, by a model that has a child model.
C21_Witness ==
    /\ model.state = "built"
    /\ model.cfg.allow_unexpected
    /\ Len(model.registry) >= 2
    /\ call.op = "load"
    /\ call.input.k = "dict"
    /\ call.result.err = ""
    /\ \E o \in NestedRecords(model.descriptor, call.input) : "y" \in DOMAIN o.m

(***************************************************************************)
(* C22: record cycles away from the root.                                  *)
(***************************************************************************)
\* C22: for every record graph the construction of the root model ends
\* without running out of stack, and SeriousModel.__init__ is entered at
\* most once for a descriptor.
C22_OneModelPerDescriptor ==
    Constructed =>
    /\ model.err # "RecursionError"
    /\ \A i, j \in 1..Len(model.created) :
          model.created[i] = model.created[j] => i = j

(***************************************************************************)
(* C23: the steps of a context.                                            *)
(***************************************************************************)
\* C23: the context stack is balanced: outside of the run of a field, that
\* is between the fields of a call, after a raise and after the call, the
\* steps of the context of a caller are as before the field was entered:
\* none.
C23_StackBalanced ==
    \A t \in Callers : call.inv[t].pc # "entered" => call.steps[Context(t)] = <<>>

(***************************************************************************)
(* describe as a function of a type and generic bindings: here model holds *)
(* the arguments and call the descriptor returned.                         *)
(***************************************************************************)
InitDescribe ==
    /\ \E X \in {Cls("int"), Cls("list"), Cls("T"), Cls("U"), Cls("Student"), Cls("Envelope"),
                 Cls("Both"), Cls("Clash"), AnyT,
                 ListT(Cls("int")), ListT(Cls("T")), DictT(Cls("str"), Cls("U")),
                 Alias("Envelope", <<Cls("int")>>), Alias("Envelope", <<Cls("T")>>),
                 Alias("Tagged", <<ListT(Cls("T"))>>),
                 Cls("Node"), Cls("Ping"), Cls("Tree"), Cls("DataClassWithDataClass"),
                 Alias("Grow", <<Cls("int")>>)},
          optional \in BOOLEAN,
          generic_params \in {EmptyMap,
                              [k \in {"T"} |-> describe(Cls("int"), EmptyMap)],
                              [k \in {"T", "U"} |->
                                  describe(IF k = "T" THEN Cls("str") ELSE ListT(Cls("int")),
                                           EmptyMap)],
                              [k \in {"U"} |-> describe(OptionalT(Cls("Student")), EmptyMap)]} :
          model = [type_ |-> IF optional THEN OptionalT(X) ELSE X,
                   generic_params |-> generic_params]
    /\ call = NoCall

\* describe(type_, generic_params)
Describe ==
    /\ call.op = "none"
    /\ call' = [op |-> "describe", input |-> NoneV,
                result |-> describe(model.type_, model.generic_params)]
    /\ UNCHANGED model

\* scan_types(desc) of the descriptor just returned.
Scan ==
    /\ call.op = "describe"
    /\ call' = [op |-> "scan", input |-> call.result, result |-> scan_types(call.result)]
    /\ UNCHANGED model

NextDescribe == Describe \/ Scan \/ Return

SpecDescribe == InitDescribe /\ [][NextDescribe]_vars

(***************************************************************************)
(* C24: optional types and bound type variables.                           *)
(***************************************************************************)
\* C24: describing Optional[X] under the bindings g yields describe(X, g)
\* with is_optional set, whatever X is: a type variable bound in g, a
\* parameterized container, a parameterized generic record, a bare class;
\* describing a type that is a key of g yields the descriptor bound to it.
C24_OptionalOfDescribed ==
    call.op = "describe" =>
    /\ _is_optional(model.type_)
          => call.result = [describe(model.type_.args[1], model.generic_params)
                                EXCEPT !.is_optional = TRUE]
    /\ ~model.type_.alias /\ model.type_.origin \in DOMAIN model.generic_params
          => call.result = model.generic_params[model.type_.origin]

(***************************************************************************)
(* C25: records declared with several generic bases.                       *)
(***************************************************************************)
\* The bindings each generic base of the described class contributes.
BaseBindings ==
    LET cls == IF _is_optional(model.type_) THEN model.type_.args[1] ELSE model.type_
    IN [i \in 1..Len(OrigBases(cls.origin)) |->
           _describe_generic(OrigBases(cls.origin)[i], model.generic_params).parameters]

\* The described type is a record class declared with generic bases.
HasGenericBases ==
    LET cls == IF _is_optional(model.type_) THEN model.type_.args[1] ELSE model.type_
    IN ~cls.alias /\ OrigBases(cls.origin) # <<>> /\ cls.origin \in Dataclasses

\* C25: describing a record class declared with generic bases yields a
\* descriptor marked as a record whose parameters are the union of the
\* bindings of the bases, and a variable bound by several bases has the
\* binding of the leftmost of them.
C25_LeftmostBaseWins ==
    (call.op = "describe" /\ HasGenericBases
        /\ (_is_optional(model.type_) \/ model.type_.origin \notin DOMAIN model.generic_params)) =>
    /\ call.result.is_dataclass
    /\ DOMAIN call.result.parameters = UNION {DOMAIN BaseBindings[i] : i \in DOMAIN BaseBindings}
    /\ \A i \in DOMAIN BaseBindings : \A k \in DOMAIN BaseBindings[i] :
          (\A j \in 1..(i - 1) : k \notin DOMAIN BaseBindings[j])
              => call.result.parameters[k] = BaseBindings[i][k]

\* Clash(Envelope[int], Labelled[str]) is described: both bases bind T.
C25_Witness ==
    /\ call.op = "describe"
    /\ model.type_ = Cls("Clash")
    /\ \A i \in {1, 2} : "T" \in DOMAIN BaseBindings[i]
    /\ BaseBindings[1]["T"] # BaseBindings[2]["T"]
    /\ call.result.parameters["T"].cls = "int"

(***************************************************************************)
(* C26: the scan of a descriptor graph.                                    *)
(***************************************************************************)
\* The descriptors reached from those of S in at most n steps through
\* parameters and fields.
RECURSIVE ReachableFrom(_, _)
ReachableFrom(S, n) ==
    IF n = 0 THEN S
    ELSE ReachableFrom(S \cup UNION {Range(ParameterValues(d)) \cup Range(FieldTypes(d)) : d \in S},
                       n - 1)

\* C26: scan_types returns for every descriptor, those of self-referential
\* and mutually referential records included; it visits no descriptor twice,
\* every visit contributes one class, and the classes returned include that
\* of every descriptor reachable through parameters and fields, the root's
\* own among them.
C26_ScanTerminatesAndCovers ==
    call.op = "scan" =>
    /\ call.result.err = ""
    /\ \A i, j \in 1..Len(call.result.known) :
          call.result.known[i] = call.result.known[j] => i = j
    /\ Len(call.result.types) = Len(call.result.known)
    /\ call.input.cls \in Range(call.result.types)
    /\ \A d \in ReachableFrom({call.input}, MaxScanDepth) : d.cls \in Range(call.result.types)

(***************************************************************************)
(* C27: load and the mapping of its caller.                                *)
(***************************************************************************)
\* The call of caller t is a load past the statements before the try block.
InTry(t) ==
    /\ call.inv[t].op = "load"
    /\ call.inv[t].input.k = "dict"
    /\ call.inv[t].pc = "done"
          => call.inv[t].result.err \notin {"MissingField", "UnexpectedItem", "TypeMismatch"}

====
